---- MODULE Spec2Model ----
(***************************************************************************)
(* JokeFactory back end: the round / batch / market engine.                *)
(*                                                                         *)
(* The store is PostgreSQL under READ COMMITTED.  A request handler is a   *)
(* process slot; what it has read, which rows its open transaction holds   *)
(* and what it has written but not committed is kept in pc[p].  A          *)
(* statement sent through the pool (r.pool.Exec / r.pool.QueryRow) commits *)
(* on its own at once; a statement sent through tx becomes visible at      *)
(* tx.Commit and is dropped by tx.Rollback.  Row locks are derived from    *)
(* the positions of the slots: a slot between its locking statement and    *)
(* its commit holds the row.                                               *)
(***************************************************************************)
EXTENDS Integers, Sequences, FiniteSets, TLC

\* ------------------------------------------------------------------ bounds
MaxBatches == 2   \* CreateBatch transactions begun (batch ids handed out)
MaxFaults == 1    \* transactions cut short by a failing commit / cancelled request
MaxBudget == 2    \* largest customer budget a round is configured with
MaxMarketOps == 3 \* Buy and Return calls that reach the repository
MaxUsers == 2     \* user rows ever created
MaxPoints == 2    \* points_earned of a team in the statistics
MaxNow == 3       \* ticks of the database time

Procs == {1, 2}
Rounds == {1, 2}
Teams == {1, 2}
JMs == {1, 2}
QCs == {3, 4}
Customers == {5, 6}
Users == JMs \cup QCs \cup Customers
BatchSizes == {1, 2}
JokeCounts == {0, 1, 2}
BudgetValues == 0..MaxBudget
RatingLists == {<<5, 5>>, <<5, 4>>, <<4, 4>>}

VARIABLES
  users,                 \* users: user_id -> [role, team_id] (team_id 0 is NULL)
  teams,                 \* teams: the number of rows, with ids 1..teams
  rounds,                \* rounds: round_id -> [status, customer_budget, batch_size,
                         \*   started_at, ended_at]
  now,                   \* now(): the time of the database
  team_rounds_state,     \* <<round_id, team_id>> -> counters, rows that exist only
  batches,               \* batches: sequence, batch_id is the index
  jokes,                 \* jokes: sequence of [batch_id], joke_id is the index
  joke_ratings,          \* joke_id -> [rating, qc_user_id], rows that exist only
  published_jokes,       \* joke_id -> [round_id, team_id], rows that exist only
  customer_round_budget, \* <<round_id, customer_user_id>> -> [starting_budget, remaining_budget]
  purchases,             \* set of <<round_id, customer_user_id, joke_id>>
  clock,                 \* number of CreateBatch transactions begun: now() of the next one
  faults,                \* number of transactions cut short so far
  plan,                  \* the calls a scenario runs and the values it started from
  claimed,               \* batch_id -> the QCs Next has handed the batch to, until it is rated
  tally,                 \* a scenario's count of returned calls, per outcome
  ret,                   \* the call that returned in the last step, with its outcome and value
  pc                     \* per slot: the call in progress

vars == <<users, teams, rounds, now, team_rounds_state, batches, jokes, joke_ratings,
          published_jokes, customer_round_budget, purchases, clock, faults, plan,
          claimed, tally, ret, pc>>

dbRounds == <<rounds, teams, now>>
dbBatch == <<batches, jokes, joke_ratings, published_jokes, clock>>
dbMarket == <<customer_round_budget, purchases>>

\* ------------------------------------------------------------------ helpers
NoPlan == [user |-> 0, round |-> 0, joke |-> 0, remaining |-> 0, points |-> 0, held |-> FALSE]

NoTally == [ok |-> 0, conflict |-> 0, other |-> 0]

Idle ==
  [op |-> "none", step |-> "idle", user |-> 0, round |-> 0, team |-> 0, batch |-> 0,
   joke |-> 0, ratings |-> <<>>, n |-> 0, aux |-> 0, outcome |-> "none", value |-> {}]

Free(p) == pc[p] = Idle

Call(op, step, u, r) ==
  [Idle EXCEPT !.op = op, !.step = step, !.user = u, !.round = r]

Done(rec, outcome) ==
  [rec EXCEPT !.step = "done", !.outcome = outcome]

\* The call of slot p returns.  A scenario (plan is set) counts the outcomes.
Finish(p, rec, outcome) ==
  /\ pc' = [pc EXCEPT ![p] = Idle]
  /\ ret' = Done(rec, outcome)
  /\ tally' = IF plan = NoPlan THEN tally
              ELSE IF outcome = "OK" THEN [tally EXCEPT !.ok = @ + 1]
              ELSE IF outcome = "Conflict" THEN [tally EXCEPT !.conflict = @ + 1]
              ELSE [tally EXCEPT !.other = @ + 1]

\* The call of slot p moves on.
Goto(p, rec) ==
  /\ pc' = [pc EXCEPT ![p] = rec]
  /\ ret' = Idle
  /\ UNCHANGED tally

\* A use case's tests before it calls the repository: the first that fails decides.
Proceed(p, rec, outcome) ==
  IF outcome = "go" THEN Goto(p, rec) ELSE Finish(p, rec, outcome)

RECURSIVE SumSeq(_)
SumSeq(s) == IF s = <<>> THEN 0 ELSE Head(s) + SumSeq(Tail(s))

\* A NULL timestamp.
NullTime == -1

\* started_at = now(), whatever it was.
CoalesceNever(old, t) == t

\* COALESCE(started_at, now())
Coalesce(old, t) == IF old = NullTime THEN t ELSE old

RoundExists(r) == rounds[r].status # "NONE"

\* GetRoundByID + the status test every mutating use case makes.
RoundActiveOrEnded(r) == rounds[r].status \in {"ACTIVE", "ENDED"}

RoundActive(r) == rounds[r].status = "ACTIVE"

\* ------------------------------------------------------------------ rounds
\* idx_rounds_single_active: a unique index over status, for ACTIVE rows only.
SingleActiveIndexAllowsNoCheck(r) == TRUE

SingleActiveIndexAllows(r) ==
  \A o \in Rounds \ {r} : rounds[o].status # "ACTIVE"

\* An upsert that writes the whole row.
UpdateRoundConfigRewrite(rs, r, budget, size) ==
  [rs EXCEPT ![r] = [status |-> "CONFIGURED", customer_budget |-> budget, batch_size |-> size,
                     started_at |-> NullTime, ended_at |-> NullTime]]

\* UPDATE rounds SET customer_budget = $2, batch_size = $3 WHERE round_id = $1
UpdateRoundConfig(rs, r, budget, size) ==
  [rs EXCEPT ![r].customer_budget = budget, ![r].batch_size = size]

\* InsertRoundConfig, first statement: UpdateRoundConfig.
InsertRoundConfigUpdate(p, r, budget, size) ==
  /\ Free(p)
  /\ LET c == [Call("InsertConfig", "insert", 0, r) EXCEPT !.aux = budget, !.n = size,
                                                         !.value = now] IN
       IF RoundExists(r)
         THEN /\ rounds' = UpdateRoundConfig(rounds, r, budget, size)
              /\ Finish(p, c, "OK")
         ELSE /\ Goto(p, c)
              /\ UNCHANGED rounds
  /\ UNCHANGED <<users, teams, now, team_rounds_state, dbBatch, dbMarket, faults, plan, claimed>>

\* InsertRoundConfig, second statement: the INSERT after NotFound.
InsertRoundConfigInsert(p) ==
  /\ pc[p].op = "InsertConfig" /\ pc[p].step = "insert"
  /\ LET r == pc[p].round IN
       IF RoundExists(r)
         THEN /\ Finish(p, pc[p], "Internal")
              /\ UNCHANGED rounds
         ELSE /\ rounds' = [rounds EXCEPT ![r] =
                    [status |-> "CONFIGURED", customer_budget |-> pc[p].aux,
                     batch_size |-> pc[p].n, started_at |-> NullTime,
                     ended_at |-> NullTime]]
              /\ Finish(p, pc[p], "OK")
  /\ UNCHANGED <<users, teams, now, team_rounds_state, dbBatch, dbMarket, faults, plan, claimed>>

\* UPDATE rounds SET status = 'ACTIVE', customer_budget, batch_size,
\* started_at = COALESCE(started_at, now()), ended_at = NULL WHERE round_id = $1
StartRound(p, r, budget, size) ==
  /\ Free(p)
  /\ LET c == [Call("StartRound", "update", 0, r) EXCEPT !.aux = budget, !.n = size,
                                                        !.value = now] IN
       IF ~RoundExists(r)
         THEN /\ Finish(p, c, "NotFound")
              /\ UNCHANGED rounds
         ELSE IF ~SingleActiveIndexAllows(r)
           THEN /\ Finish(p, c, "Internal")
                /\ UNCHANGED rounds
           ELSE /\ rounds' = [rounds EXCEPT ![r] =
                      [status |-> "ACTIVE", customer_budget |-> budget, batch_size |-> size,
                       started_at |-> Coalesce(rounds[r].started_at, now),
                       ended_at |-> NullTime]]
                /\ Finish(p, c, "OK")
  /\ UNCHANGED <<users, teams, now, team_rounds_state, dbBatch, dbMarket, faults, plan, claimed>>

\* UPDATE rounds SET status = 'ENDED', ended_at = now() WHERE round_id = $1
EndRound(p, r) ==
  /\ Free(p)
  /\ LET c == Call("EndRound", "update", 0, r) IN
       IF ~RoundExists(r)
         THEN /\ Finish(p, c, "NotFound")
              /\ UNCHANGED rounds
         ELSE /\ rounds' = [rounds EXCEPT ![r].status = "ENDED", ![r].ended_at = now]
              /\ Finish(p, c, "OK")
  /\ UNCHANGED <<users, teams, now, team_rounds_state, dbBatch, dbMarket, faults, plan, claimed>>

\* ------------------------------------------------------------------ team round state
NoStats == [points_earned |-> 0, batches_created |-> 0, batches_rated |-> 0, accepted_jokes |-> 0]

\* INSERT INTO team_rounds_state ... ON CONFLICT DO NOTHING, through the pool.
EnsureTeamRoundState(trs, r, t) ==
  IF <<r, t>> \in DOMAIN trs THEN trs
  ELSE [k \in DOMAIN trs \cup {<<r, t>>} |-> IF k = <<r, t>> THEN NoStats ELSE trs[k]]

\* UPDATE team_rounds_state SET batches_created = batches_created + 1, through the pool.
IncrementBatchCreated(trs, r, t) ==
  IF <<r, t>> \in DOMAIN trs
    THEN [trs EXCEPT ![<<r, t>>].batches_created = @ + 1]
    ELSE trs

\* UPDATE team_rounds_state SET batches_rated + 1, accepted_jokes + $3,
\* points_earned + $4, through the pool (not through the caller's tx).
IncrementRatedStats(trs, r, t, passesCount, pointsDelta) ==
  IF <<r, t>> \in DOMAIN trs
    THEN [trs EXCEPT ![<<r, t>>] =
            [@ EXCEPT !.batches_rated = @ + 1,
                      !.accepted_jokes = @ + passesCount,
                      !.points_earned = @ + pointsDelta]]
    ELSE trs

\* CHECK (points_earned >= 0) on team_rounds_state: the UPDATE fails instead.
PointsCheckFails(trs, r, t, pointsDelta) ==
  /\ <<r, t>> \in DOMAIN trs
  /\ trs[<<r, t>>].points_earned + pointsDelta < 0

\* ------------------------------------------------------------------ batches
BatchIds == DOMAIN batches

JokesOf(b) == {j \in DOMAIN jokes : jokes[j].batch_id = b}

\* The jokes of a batch ORDER BY joke_id.
RECURSIVE SortedSeq(_)
SortedSeq(S) ==
  IF S = {} THEN <<>>
  ELSE LET m == CHOOSE x \in S : \A y \in S : x <= y
       IN <<m>> \o SortedSeq(S \ {m})

\* A row lock on batches held by another slot's open transaction:
\* GetNextBatchForQC after its SELECT ... FOR UPDATE SKIP LOCKED, RateBatch
\* after its SELECT ... FOR UPDATE.
BatchRowLocked(b, p) ==
  \E q \in Procs \ {p} :
    /\ pc[q].batch = b
    /\ \/ pc[q].op = "Next" /\ pc[q].step = "selected"
       \/ pc[q].op = "Rate" /\ pc[q].step \in {"locked", "incremented"}

SubmitsInFlight ==
  Cardinality({q \in Procs : pc[q].op = "Submit" /\ pc[q].step = "checked"})

\* BatchService.Submit: if len(jokes) != round.BatchSize
WrongBatchSizeTooMany(n, size) == n > size

WrongBatchSize(n, size) == n # size

\* BatchService.Submit up to the call of CreateBatch.
SubmitCall(p, u, r, t, n) ==
  /\ Free(p)
  /\ clock + SubmitsInFlight < MaxBatches
  /\ Proceed(p, [Call("Submit", "checked", u, r) EXCEPT !.team = t, !.n = n],
       IF n = 0 THEN "Validation"
       ELSE IF users[u].role # "JM" THEN "Forbidden"
       ELSE IF users[u].team_id # t THEN "Forbidden"
       ELSE IF ~RoundExists(r) THEN "NotFound"
       ELSE IF ~RoundActive(r) THEN "Conflict"
       ELSE IF WrongBatchSize(n, rounds[r].batch_size) THEN "Validation"
       ELSE "go")
  /\ UNCHANGED <<users, dbRounds, team_rounds_state, dbBatch, dbMarket, faults, plan, claimed>>

\* EnsureTeamRoundState (pool), then CreateBatch: Begin, INSERT INTO batches with
\* submitted_at = now(), INSERT INTO jokes.  The inserts stay in the transaction.
SubmitInsert(p) ==
  /\ pc[p].op = "Submit" /\ pc[p].step = "checked"
  /\ team_rounds_state' = EnsureTeamRoundState(team_rounds_state, pc[p].round, pc[p].team)
  /\ clock' = clock + 1
  /\ Goto(p, [pc[p] EXCEPT !.step = "inserted", !.aux = clock + 1])
  /\ UNCHANGED <<users, dbRounds, batches, jokes, joke_ratings, published_jokes, dbMarket,
                 faults, plan, claimed>>

\* CreateBatch: r.IncrementBatchCreated, which runs on the pool.
SubmitIncrement(p) ==
  /\ pc[p].op = "Submit" /\ pc[p].step = "inserted"
  /\ team_rounds_state' = IncrementBatchCreated(team_rounds_state, pc[p].round, pc[p].team)
  /\ Goto(p, [pc[p] EXCEPT !.step = "incremented"])
  /\ UNCHANGED <<users, dbRounds, dbBatch, dbMarket, faults, plan, claimed>>

NewBatch(r, t, ts) ==
  [round_id |-> r, team_id |-> t, status |-> "SUBMITTED", submitted_at |-> ts,
   locked_by_qc |-> 0, avg_score |-> -1, passes_count |-> -1]

\* CreateBatch: tx.Commit.
SubmitCommit(p) ==
  /\ pc[p].op = "Submit" /\ pc[p].step = "incremented"
  /\ LET b == Len(batches) + 1 IN
       /\ batches' = Append(batches, NewBatch(pc[p].round, pc[p].team, pc[p].aux))
       /\ jokes' = jokes \o [i \in 1..pc[p].n |-> [batch_id |-> b]]
       /\ claimed' = [x \in 1..b |-> IF x = b THEN {} ELSE claimed[x]]
       /\ Finish(p, [pc[p] EXCEPT !.batch = b, !.aux = 0], "OK")
  /\ UNCHANGED <<users, dbRounds, team_rounds_state, joke_ratings, published_jokes, clock,
                 dbMarket, faults, plan>>

\* CreateBatch returns an error after Begin (a statement or the commit fails, the
\* request is cancelled): the deferred tx.Rollback drops what went through tx.
SubmitAbort(p) ==
  /\ pc[p].op = "Submit" /\ pc[p].step \in {"inserted", "incremented"}
  /\ faults < MaxFaults
  /\ faults' = faults + 1
  /\ Finish(p, [pc[p] EXCEPT !.aux = 0], "Internal")
  /\ UNCHANGED <<users, dbRounds, team_rounds_state, dbBatch, dbMarket, plan, claimed>>

\* ------------------------------------------------------------------ QC: next
\* WHERE round_id = $1 AND status = 'SUBMITTED'
\*   AND (locked_by_qc IS NULL OR locked_by_qc = $2)
NextEligibleAnyHolder(b, r, qc) ==
  /\ batches[b].round_id = r
  /\ batches[b].status = "SUBMITTED"

\* A filter that also asks for a batch of the QC's own team.
NextEligibleOwnTeam(b, r, qc) ==
  /\ batches[b].round_id = r
  /\ batches[b].status = "SUBMITTED"
  /\ batches[b].locked_by_qc \in {0, qc}
  /\ batches[b].team_id = users[qc].team_id

NextEligible(b, r, qc) ==
  /\ batches[b].round_id = r
  /\ batches[b].status = "SUBMITTED"
  /\ batches[b].locked_by_qc \in {0, qc}

\* ORDER BY submitted_at ASC ... LIMIT 1
Newest(S) == CHOOSE b \in S : \A o \in S : batches[b].submitted_at >= batches[o].submitted_at

Oldest(S) == CHOOSE b \in S : \A o \in S : batches[b].submitted_at <= batches[o].submitted_at

CountSubmittedBatches(r) ==
  Cardinality({b \in BatchIds : batches[b].round_id = r /\ batches[b].status = "SUBMITTED"})

\* QCService.Next up to the call of GetNextBatchForQC.
NextCall(p, u, r) ==
  /\ Free(p)
  /\ Proceed(p, Call("Next", "checked", u, r),
       IF users[u].role # "QC" THEN "Forbidden"
       ELSE IF users[u].team_id = 0 THEN "Conflict"
       ELSE IF ~RoundExists(r) THEN "NotFound"
       ELSE IF ~RoundActive(r) THEN "Conflict"
       ELSE "go")
  /\ UNCHANGED <<users, dbRounds, team_rounds_state, dbBatch, dbMarket, faults, plan, claimed>>

\* A plain FOR UPDATE waits while another transaction holds the first row it wants.
NextWaitsForLock(p) ==
  LET S == {b \in BatchIds : NextEligible(b, pc[p].round, pc[p].user)} IN
    S # {} /\ BatchRowLocked(Oldest(S), p)

\* FOR UPDATE SKIP LOCKED: the SELECT passes over a locked row instead of waiting.
NextWaits(p) == FALSE

\* GetNextBatchForQC: Begin, SELECT ... FOR UPDATE SKIP LOCKED LIMIT 1.
NextSelect(p) ==
  /\ pc[p].op = "Next" /\ pc[p].step = "checked"
  /\ ~NextWaits(p)
  /\ LET S == {b \in BatchIds :
                 NextEligible(b, pc[p].round, pc[p].user) /\ ~BatchRowLocked(b, p)} IN
       IF S = {} THEN Finish(p, pc[p], "NotFound")
       ELSE Goto(p, [pc[p] EXCEPT !.step = "selected", !.batch = Oldest(S)])
  /\ UNCHANGED <<users, dbRounds, team_rounds_state, dbBatch, dbMarket, faults, plan, claimed>>

\* GetNextBatchForQC: UPDATE batches SET locked_by_qc, the reads, tx.Commit.
NextCommit(p) ==
  /\ pc[p].op = "Next" /\ pc[p].step = "selected"
  /\ batches' = [batches EXCEPT ![pc[p].batch].locked_by_qc = pc[p].user]
  /\ claimed' = [claimed EXCEPT ![pc[p].batch] = @ \cup {pc[p].user}]
  /\ Finish(p, [pc[p] EXCEPT !.aux = CountSubmittedBatches(pc[p].round)], "OK")
  /\ UNCHANGED <<users, dbRounds, team_rounds_state, jokes, joke_ratings, published_jokes,
                 clock, dbMarket, faults, plan>>

NextAbort(p) ==
  /\ pc[p].op = "Next" /\ pc[p].step = "selected"
  /\ faults < MaxFaults
  /\ faults' = faults + 1
  /\ Finish(p, [pc[p] EXCEPT !.batch = 0], "Internal")
  /\ UNCHANGED <<users, dbRounds, team_rounds_state, dbBatch, dbMarket, plan, claimed>>

\* ------------------------------------------------------------------ QC: rate
\* A request's ratings that name the jokes of batch b in joke_id order.
RatingPairs(b, list) ==
  LET js == SortedSeq(JokesOf(b)) IN
    [i \in 1..Len(list) |-> [joke_id |-> IF i <= Len(js) THEN js[i] ELSE 0, rating |-> list[i]]]

\* RateBatch: if batch.Status == BatchRated, if lockedBy != nil && *lockedBy != qcUserID
RateRejectsRatedOnly(status, lockedBy, qc) ==
  status = "RATED"

RateRejectsLockOnly(status, lockedBy, qc) ==
  lockedBy # 0 /\ lockedBy # qc

RateRejectsAnyLock(status, lockedBy, qc) ==
  status = "RATED" \/ lockedBy # 0

RateRejects(status, lockedBy, qc) ==
  \/ status = "RATED"
  \/ lockedBy # 0 /\ lockedBy # qc

\* RateBatch: if rgt.Rating == 5 { passes++ }
CountPassesFourUp(ratings) ==
  Cardinality({i \in DOMAIN ratings : ratings[i].rating >= 4})

CountPasses(ratings) ==
  Cardinality({i \in DOMAIN ratings : ratings[i].rating = 5})

\* The mean cut off after the second decimal instead of rounded to it.
AvgScoreFloor(ratings) ==
  (100 * SumSeq([i \in DOMAIN ratings |-> ratings[i].rating])) \div Len(ratings)

\* RateBatch: total += rgt.Rating; avg := float64(total) / float64(len(ratings)),
\* stored in avg_score NUMERIC(4,2): kept here in hundredths.
AvgScore(ratings) ==
  LET total == SumSeq([i \in DOMAIN ratings |-> ratings[i].rating])
      n == Len(ratings)
  IN (200 * total + n) \div (2 * n)

\* INSERT INTO joke_ratings ... ON CONFLICT (joke_id) DO UPDATE, one per rating in order.
RECURSIVE UpsertRatings(_, _, _)
UpsertRatings(jr, ratings, qc) ==
  IF ratings = <<>> THEN jr
  ELSE LET rt == Head(ratings)
           one == [j \in DOMAIN jr \cup {rt.joke_id} |->
                     IF j = rt.joke_id THEN [rating |-> rt.rating, qc_user_id |-> qc]
                     ELSE jr[j]]
       IN UpsertRatings(one, Tail(ratings), qc)

\* INSERT INTO published_jokes SELECT joke_id FROM jokes WHERE batch_id = $1 AND joke_id IN
\* (SELECT joke_id FROM joke_ratings WHERE ... rating = 5) ON CONFLICT DO NOTHING RETURNING joke_id
PublishRows(b, jr, pub) ==
  {j \in JokesOf(b) : j \in DOMAIN jr /\ jr[j].rating = 5 /\ j \notin DOMAIN pub}

\* QCService.Rate up to the call of RateBatch.
RateCall(p, u, b, ratings) ==
  /\ Free(p)
  /\ LET r == IF b \in BatchIds THEN batches[b].round_id ELSE 0 IN
       Proceed(p, [Call("Rate", "checked", u, r) EXCEPT
                     !.batch = b,
                     !.ratings = ratings],
         IF Len(ratings) = 0 THEN "Validation"
         ELSE IF users[u].role # "QC" THEN "Forbidden"
         ELSE IF b \notin BatchIds THEN "NotFound"
         ELSE IF ~RoundActive(r) THEN "Conflict"
         ELSE IF Len(ratings) # Cardinality(JokesOf(b)) THEN "Validation"
         ELSE "go")
  /\ UNCHANGED <<users, dbRounds, team_rounds_state, dbBatch, dbMarket, faults, plan, claimed>>

\* RateBatch: Begin, SELECT ... FOR UPDATE (waits for the row), the two conflict tests.
\* The upserts, the UPDATE of the batch and the publish INSERT follow inside the
\* transaction and touch rows only this transaction can reach.
RateLock(p) ==
  /\ pc[p].op = "Rate" /\ pc[p].step = "checked"
  /\ ~BatchRowLocked(pc[p].batch, p)
  /\ LET b == batches[pc[p].batch] IN
       IF RateRejects(b.status, b.locked_by_qc, pc[p].user)
         THEN Finish(p, pc[p], "Conflict")
         ELSE Goto(p, [pc[p] EXCEPT !.step = "locked", !.team = b.team_id])
  /\ UNCHANGED <<users, dbRounds, team_rounds_state, dbBatch, dbMarket, faults, plan, claimed>>

\* RateBatch: r.IncrementRatedStats(ctx, updated.RoundID, updated.TeamID, passes, 0),
\* which runs on the pool.
RateIncrement(p) ==
  /\ pc[p].op = "Rate" /\ pc[p].step = "locked"
  /\ team_rounds_state' =
       IncrementRatedStats(team_rounds_state, pc[p].round, pc[p].team,
                           CountPasses(pc[p].ratings), 0)
  /\ Goto(p, [pc[p] EXCEPT !.step = "incremented"])
  /\ UNCHANGED <<users, dbRounds, dbBatch, dbMarket, faults, plan, claimed>>

\* RateBatch: tx.Commit makes the ratings, the RATED batch and the published jokes visible.
RateCommit(p) ==
  /\ pc[p].op = "Rate" /\ pc[p].step = "incremented"
  /\ LET b == pc[p].batch
         jr == UpsertRatings(joke_ratings, pc[p].ratings, pc[p].user)
         new == PublishRows(b, jr, published_jokes)
     IN
       /\ joke_ratings' = jr
       /\ batches' = [batches EXCEPT ![b] =
            [@ EXCEPT !.status = "RATED", !.avg_score = AvgScore(pc[p].ratings),
                      !.passes_count = CountPasses(pc[p].ratings), !.locked_by_qc = 0]]
       /\ published_jokes' =
            [j \in DOMAIN published_jokes \cup new |->
               IF j \in new
                 THEN [round_id |-> batches[b].round_id, team_id |-> batches[b].team_id]
                 ELSE published_jokes[j]]
       /\ claimed' = [claimed EXCEPT ![b] = {}]
       /\ Finish(p, [pc[p] EXCEPT !.value = new], "OK")
  /\ UNCHANGED <<users, dbRounds, team_rounds_state, jokes, clock, dbMarket, faults, plan>>

\* RateBatch returns an error after its conflict tests: the deferred tx.Rollback
\* drops what went through tx.
RateAbort(p) ==
  /\ pc[p].op = "Rate" /\ pc[p].step \in {"locked", "incremented"}
  /\ faults < MaxFaults
  /\ faults' = faults + 1
  /\ Finish(p, pc[p], "Internal")
  /\ UNCHANGED <<users, dbRounds, team_rounds_state, dbBatch, dbMarket, plan, claimed>>

\* ------------------------------------------------------------------ market
\* An upsert that rewrites the row it finds.
EnsureCustomerBudgetOverwrite(crb, r, c, starting) ==
  [k \in DOMAIN crb \cup {<<r, c>>} |->
     IF k = <<r, c>> THEN [starting_budget |-> starting, remaining_budget |-> starting]
     ELSE crb[k]]

\* INSERT INTO customer_round_budget (..., starting_budget, remaining_budget)
\* VALUES ($1, $2, $3, $3) ON CONFLICT DO NOTHING, through the pool.
EnsureCustomerBudget(crb, r, c, starting) ==
  IF <<r, c>> \in DOMAIN crb THEN crb
  ELSE [k \in DOMAIN crb \cup {<<r, c>>} |->
          IF k = <<r, c>> THEN [starting_budget |-> starting, remaining_budget |-> starting]
          ELSE crb[k]]

\* CHECK (remaining_budget >= 0) on customer_round_budget: the UPDATE fails instead.
BudgetCheckFailsNever(remaining) == FALSE

BudgetCheckFails(remaining) == remaining < 0

\* BuyJoke: if budget.RemainingBudget <= 0
InsufficientBudgetBelowZero(remaining) == remaining < 0

InsufficientBudget(remaining) == remaining <= 0

\* UNIQUE (round_id, customer_user_id, joke_id) on purchases: a committed row with the key.
PurchaseExistsNever(r, c, j) == FALSE

PurchaseExistsAlways(r, c, j) == TRUE

PurchaseExists(r, c, j) == <<r, c, j>> \in purchases

\* UPDATE customer_round_budget SET remaining_budget = remaining_budget - 1 (BuyJoke)
\* and remaining_budget + 1 (ReturnJoke).
BudgetAfterBuy(remaining) == remaining - 1

BudgetAfterReturnKept(remaining) == remaining

BudgetAfterReturn(remaining) == remaining + 1

\* Every Buy and Return adds 1 to batches_rated: the calls that can still do so
\* are counted against MaxMarketOps.
RECURSIVE SumRated(_, _)
SumRated(trs, K) ==
  IF K = {} THEN 0
  ELSE LET k == CHOOSE x \in K : TRUE
       IN trs[k].batches_rated + SumRated(trs, K \ {k})

MarketOps ==
  SumRated(team_rounds_state, DOMAIN team_rounds_state)
    - Cardinality({b \in BatchIds : batches[b].status = "RATED"})
    + Cardinality({q \in Procs : pc[q].op \in {"Buy", "Return"}
                                  /\ pc[q].step \in {"checked", "read", "written"}})

\* An open transaction of another slot holds the purchases key: BuyJoke after its
\* INSERT (not yet visible), ReturnJoke after its SELECT ... FOR UPDATE and DELETE.
PurchaseKeyHeld(r, c, j, p, ops) ==
  \E q \in Procs \ {p} :
    /\ pc[q].op \in ops
    /\ pc[q].step \in {"written", "incremented"}
    /\ pc[q].round = r /\ pc[q].user = c /\ pc[q].joke = j

\* An open transaction of another slot has updated the customer's budget row.
BudgetRowLocked(r, c, p) ==
  \E q \in Procs \ {p} :
    /\ pc[q].op \in {"Buy", "Return"}
    /\ pc[q].step \in {"written", "incremented"}
    /\ pc[q].round = r /\ pc[q].user = c

\* CustomerService.Buy up to EnsureCustomerBudget: ensureCustomer, GetRoundByID.
BuyCall(p, u, r, j) ==
  /\ Free(p)
  /\ MarketOps < MaxMarketOps
  /\ Proceed(p, [Call("Buy", "checked", u, r) EXCEPT
                   !.joke = j,
                   !.aux = IF r \in Rounds THEN rounds[r].customer_budget ELSE 0],
       IF users[u].role # "CUSTOMER" THEN "Forbidden"
       ELSE IF ~RoundExists(r) THEN "NotFound"
       ELSE IF ~RoundActive(r) THEN "Conflict"
       ELSE "go")
  /\ UNCHANGED <<users, dbRounds, team_rounds_state, dbBatch, dbMarket, faults, plan, claimed>>

\* EnsureCustomerBudget (pool), then BuyJoke: Begin, getCustomerBudgetTx (a plain
\* SELECT, no row lock), the test of the remaining budget.
BuyBegin(p) ==
  /\ pc[p].op = "Buy" /\ pc[p].step = "checked"
  /\ LET crb == EnsureCustomerBudget(customer_round_budget, pc[p].round, pc[p].user, pc[p].aux)
         rem == crb[<<pc[p].round, pc[p].user>>].remaining_budget
     IN
       /\ customer_round_budget' = crb
       /\ IF InsufficientBudget(rem)
            THEN Finish(p, [pc[p] EXCEPT !.aux = 0], "Conflict")
            ELSE Goto(p, [pc[p] EXCEPT !.step = "read", !.aux = rem])
  /\ UNCHANGED <<users, dbRounds, team_rounds_state, dbBatch, purchases, faults, plan, claimed>>

\* BuyJoke: INSERT INTO purchases (waits for an open transaction that holds the key;
\* unique violation -> Conflict; joke_id REFERENCES published_jokes), then
\* UPDATE customer_round_budget (waits for the row, reads the committed value).
BuyWrite(p) ==
  /\ pc[p].op = "Buy" /\ pc[p].step = "read"
  /\ LET r == pc[p].round
         c == pc[p].user
         j == pc[p].joke
         rec == [pc[p] EXCEPT !.aux = 0]
     IN
       /\ ~PurchaseKeyHeld(r, c, j, p, {"Buy", "Return"})
       /\ IF PurchaseExists(r, c, j) THEN Finish(p, rec, "Conflict")
          ELSE IF j \notin DOMAIN published_jokes THEN Finish(p, rec, "Internal")
          ELSE /\ ~BudgetRowLocked(r, c, p)
               /\ IF BudgetCheckFails(
                       BudgetAfterBuy(customer_round_budget[<<r, c>>].remaining_budget))
                    THEN Finish(p, rec, "Internal")
                    ELSE Goto(p, [pc[p] EXCEPT !.step = "written"])
  /\ UNCHANGED <<users, dbRounds, team_rounds_state, dbBatch, dbMarket, faults, plan, claimed>>

\* BuyJoke: SELECT team_id FROM published_jokes, then
\* r.IncrementRatedStats(ctx, roundID, teamID, 0, 1), which runs on the pool.
BuyIncrement(p) ==
  /\ pc[p].op = "Buy" /\ pc[p].step = "written"
  /\ LET t == published_jokes[pc[p].joke].team_id IN
       /\ team_rounds_state' = IncrementRatedStats(team_rounds_state, pc[p].round, t, 0, 1)
       /\ Goto(p, [pc[p] EXCEPT !.step = "incremented", !.team = t])
  /\ UNCHANGED <<users, dbRounds, dbBatch, dbMarket, faults, plan, claimed>>

\* BuyJoke: tx.Commit makes the purchase and the budget decrement visible.
BuyCommit(p) ==
  /\ pc[p].op = "Buy" /\ pc[p].step = "incremented"
  /\ LET k == <<pc[p].round, pc[p].user>> IN
       /\ purchases' = purchases \cup {<<pc[p].round, pc[p].user, pc[p].joke>>}
       /\ customer_round_budget' =
            [customer_round_budget EXCEPT ![k].remaining_budget = BudgetAfterBuy(@)]
       /\ Finish(p, [pc[p] EXCEPT !.aux = pc[p].aux - 1], "OK")
  /\ UNCHANGED <<users, dbRounds, team_rounds_state, dbBatch, faults, plan, claimed>>

\* BuyJoke returns an error after its writes: the deferred tx.Rollback drops what
\* went through tx.
BuyAbort(p) ==
  /\ pc[p].op = "Buy" /\ pc[p].step \in {"written", "incremented"}
  /\ faults < MaxFaults
  /\ faults' = faults + 1
  /\ Finish(p, [pc[p] EXCEPT !.aux = 0], "Internal")
  /\ UNCHANGED <<users, dbRounds, team_rounds_state, dbBatch, dbMarket, plan, claimed>>

\* CustomerService.Return up to EnsureCustomerBudget: ensureCustomer, GetRoundByID.
ReturnCall(p, u, r, j) ==
  /\ Free(p)
  /\ MarketOps < MaxMarketOps
  /\ Proceed(p, [Call("Return", "checked", u, r) EXCEPT
                   !.joke = j,
                   !.aux = IF r \in Rounds THEN rounds[r].customer_budget ELSE 0],
       IF users[u].role # "CUSTOMER" THEN "Forbidden"
       ELSE IF ~RoundExists(r) THEN "NotFound"
       ELSE IF ~RoundActive(r) THEN "Conflict"
       ELSE "go")
  /\ UNCHANGED <<users, dbRounds, team_rounds_state, dbBatch, dbMarket, faults, plan, claimed>>

\* EnsureCustomerBudget (pool), then ReturnJoke: Begin, SELECT ... FROM purchases
\* FOR UPDATE (no committed row -> Conflict; waits for a transaction that holds the
\* row), DELETE, UPDATE customer_round_budget (waits for the row).
ReturnWrite(p) ==
  /\ pc[p].op = "Return" /\ pc[p].step = "checked"
  /\ LET r == pc[p].round
         c == pc[p].user
         j == pc[p].joke
     IN
       /\ customer_round_budget' = EnsureCustomerBudget(customer_round_budget, r, c, pc[p].aux)
       /\ IF ~PurchaseExists(r, c, j) THEN Finish(p, [pc[p] EXCEPT !.aux = 0], "Conflict")
          ELSE /\ ~PurchaseKeyHeld(r, c, j, p, {"Return"})
               /\ ~BudgetRowLocked(r, c, p)
               /\ Goto(p, [pc[p] EXCEPT !.step = "written", !.aux = 0])
  /\ UNCHANGED <<users, dbRounds, team_rounds_state, dbBatch, purchases, faults, plan, claimed>>

\* ReturnJoke: SELECT team_id FROM published_jokes, then
\* r.IncrementRatedStats(ctx, roundID, teamID, 0, -1), which runs on the pool.
ReturnIncrement(p) ==
  /\ pc[p].op = "Return" /\ pc[p].step = "written"
  /\ LET t == published_jokes[pc[p].joke].team_id IN
       IF PointsCheckFails(team_rounds_state, pc[p].round, t, -1)
         THEN /\ Finish(p, pc[p], "Internal")
              /\ UNCHANGED team_rounds_state
         ELSE /\ team_rounds_state' = IncrementRatedStats(team_rounds_state, pc[p].round, t, 0, -1)
              /\ Goto(p, [pc[p] EXCEPT !.step = "incremented", !.team = t])
  /\ UNCHANGED <<users, dbRounds, dbBatch, dbMarket, faults, plan, claimed>>

\* ReturnJoke: getCustomerBudgetTx, tx.Commit makes the delete and the budget
\* increment visible.
ReturnCommit(p) ==
  /\ pc[p].op = "Return" /\ pc[p].step = "incremented"
  /\ LET k == <<pc[p].round, pc[p].user>> IN
       /\ purchases' = purchases \ {<<pc[p].round, pc[p].user, pc[p].joke>>}
       /\ customer_round_budget' =
            [customer_round_budget EXCEPT ![k].remaining_budget = BudgetAfterReturn(@)]
       /\ Finish(p, [pc[p] EXCEPT !.aux = BudgetAfterReturn(customer_round_budget[k].remaining_budget)],
                 "OK")
  /\ UNCHANGED <<users, dbRounds, team_rounds_state, dbBatch, faults, plan, claimed>>

\* ReturnJoke returns an error after its writes: the deferred tx.Rollback drops
\* what went through tx.
ReturnAbort(p) ==
  /\ pc[p].op = "Return" /\ pc[p].step \in {"written", "incremented"}
  /\ faults < MaxFaults
  /\ faults' = faults + 1
  /\ Finish(p, pc[p], "Internal")
  /\ UNCHANGED <<users, dbRounds, team_rounds_state, dbBatch, dbMarket, plan, claimed>>

\* ------------------------------------------------------------------ initial states
InitUsers ==
  [u \in Users |->
     IF u \in JMs THEN [role |-> "JM", team_id |-> u]
     ELSE IF u \in QCs THEN [role |-> "QC", team_id |-> u - 2]
     ELSE [role |-> "CUSTOMER", team_id |-> 0]]

NoRound ==
  [status |-> "NONE", customer_budget |-> 0, batch_size |-> 0, started_at |-> NullTime,
   ended_at |-> NullTime]

EmptyFn == [x \in {} |-> 0]

InitEmpty ==
  /\ users = InitUsers
  /\ rounds = [r \in Rounds |-> NoRound]
  /\ teams = 2
  /\ now = 0
  /\ team_rounds_state = EmptyFn
  /\ batches = <<>>
  /\ jokes = <<>>
  /\ joke_ratings = EmptyFn
  /\ published_jokes = EmptyFn
  /\ customer_round_budget = EmptyFn
  /\ purchases = {}
  /\ clock = 0
  /\ faults = 0
  /\ plan = NoPlan
  /\ claimed = <<>>
  /\ tally = NoTally
  /\ ret = Idle
  /\ pc = [p \in Procs |-> Idle]

\* ------------------------------------------------------------------ round lifecycle
NextRounds ==
  \E p \in Procs :
    \/ \E r \in Rounds, b \in BudgetValues, s \in BatchSizes : InsertRoundConfigUpdate(p, r, b, s)
    \/ InsertRoundConfigInsert(p)
    \/ \E r \in Rounds, b \in BudgetValues, s \in BatchSizes : StartRound(p, r, b, s)
    \/ \E r \in Rounds : EndRound(p, r)

SpecRounds == InitEmpty /\ [][NextRounds]_vars

ActiveRounds == {r \in Rounds : rounds[r].status = "ACTIVE"}

\* C4: in every committed state at most one round is ACTIVE, and a start that
\* is refused because a different round is ACTIVE leaves its round not ACTIVE.
C4_SingleActiveRound ==
  /\ Cardinality(ActiveRounds) <= 1
  /\ (ret.op = "StartRound" /\ ret.outcome = "Internal") =>
       /\ rounds[ret.round].status # "ACTIVE"
       /\ ActiveRounds # {}

C4_Witness ==
  /\ ret.op = "StartRound" /\ ret.outcome = "Internal"
  /\ rounds[ret.round].status \in {"CONFIGURED", "ENDED"}
  /\ Cardinality(ActiveRounds) = 1

\* ------------------------------------------------------------------ submit
\* Round 1 has been configured and started with batch size 2; round 2 is configured.
RoundsStarted ==
  [r \in Rounds |->
     IF r = 1 THEN [status |-> "ACTIVE", customer_budget |-> MaxBudget, batch_size |-> 2,
                    started_at |-> 0, ended_at |-> NullTime]
     ELSE [status |-> "CONFIGURED", customer_budget |-> MaxBudget, batch_size |-> 2,
           started_at |-> NullTime, ended_at |-> NullTime]]

InitSubmit ==
  /\ users = InitUsers
  /\ rounds = RoundsStarted
  /\ teams = 2
  /\ now = 0
  /\ team_rounds_state = EmptyFn
  /\ batches = <<>>
  /\ jokes = <<>>
  /\ joke_ratings = EmptyFn
  /\ published_jokes = EmptyFn
  /\ customer_round_budget = EmptyFn
  /\ purchases = {}
  /\ clock = 0
  /\ faults = 0
  /\ plan = NoPlan
  /\ claimed = <<>>
  /\ tally = NoTally
  /\ ret = Idle
  /\ pc = [p \in Procs |-> Idle]

NextSubmit ==
  \E p \in Procs :
    \/ \E u \in JMs, r \in Rounds, n \in JokeCounts : SubmitCall(p, u, r, users[u].team_id, n)
    \/ SubmitInsert(p)
    \/ SubmitIncrement(p)
    \/ SubmitCommit(p)

SpecSubmit == InitSubmit /\ [][NextSubmit]_vars

SpecSubmitFault == InitSubmit /\ [][NextSubmit \/ \E p \in Procs : SubmitAbort(p)]_vars

\* ------------------------------------------------------------------ QC workflow
\* Both teams have submitted batches of two jokes in round 1; nothing is rated yet.
SubmittedBatches(owners) ==
  [b \in 1..Len(owners) |-> NewBatch(1, owners[b], b)]

RECURSIVE CountOf(_, _)
CountOf(s, x) ==
  IF s = <<>> THEN 0 ELSE (IF Head(s) = x THEN 1 ELSE 0) + CountOf(Tail(s), x)

InitQC ==
  \E owners \in {[b \in 1..MaxBatches |-> IF b = 1 THEN 1 ELSE 2]} :
    /\ users = InitUsers
    /\ rounds = RoundsStarted
    /\ teams = 2
    /\ now = 0
    /\ batches = SubmittedBatches(owners)
    /\ jokes = [j \in 1..(2 * MaxBatches) |-> [batch_id |-> (j + 1) \div 2]]
    /\ team_rounds_state =
         [k \in {<<1, owners[b]>> : b \in 1..MaxBatches} |->
            [NoStats EXCEPT !.batches_created = CountOf(owners, k[2])]]
    /\ joke_ratings = EmptyFn
    /\ published_jokes = EmptyFn
    /\ customer_round_budget = EmptyFn
    /\ purchases = {}
    /\ clock = MaxBatches
    /\ faults = 0
    /\ plan = NoPlan
    /\ claimed = [b \in 1..MaxBatches |-> {}]
    /\ tally = NoTally
    /\ ret = Idle
    /\ pc = [p \in Procs |-> Idle]

NextQC ==
  \E p \in Procs :
    \/ \E u \in QCs : NextCall(p, u, 1)
    \/ NextSelect(p)
    \/ NextCommit(p)
    \/ \E u \in QCs, b \in BatchIds, l \in RatingLists : RateCall(p, u, b, RatingPairs(b, l))
    \/ RateLock(p)
    \/ RateIncrement(p)
    \/ RateCommit(p)

QCFaults ==
  \E p \in Procs :
    \/ NextAbort(p)
    \/ RateAbort(p)

SpecQC == InitQC /\ [][NextQC]_vars

SpecQCFault == InitQC /\ [][NextQC \/ QCFaults]_vars

\* ------------------------------------------------------------------ market workflow
\* Round 1 is ACTIVE; each team has one batch, rated 5 and 4 by QC 3: jokes 1 (team 1)
\* and 3 (team 2) are published, jokes 2 and 4 are not.
RatedBatches ==
  [b \in 1..2 |->
     [NewBatch(1, b, b) EXCEPT !.status = "RATED", !.avg_score = 450, !.passes_count = 1]]

MarketJokes == {1, 3, 4}

PublishedOnes == {1, 3}

\* The purchases a customer holds in a round, out of a set of purchases.
Held(P, r, c) == {k \in P : k[1] = r /\ k[2] = c}

\* The purchases held on the published jokes of a team in a round.
HeldOn(P, r, t) ==
  {k \in P : k[1] = r /\ k[3] \in DOMAIN published_jokes /\ published_jokes[k[3]].team_id = t}

\* The market after the customers in `known` have interacted and bought P.
MarketState(budget, known, P) ==
  /\ users = InitUsers
  /\ rounds = [RoundsStarted EXCEPT ![1].customer_budget = budget]
  /\ teams = 2
  /\ now = 0
  /\ batches = RatedBatches
  /\ jokes = [j \in 1..4 |-> [batch_id |-> (j + 1) \div 2]]
  /\ joke_ratings = [j \in 1..4 |-> [rating |-> IF j \in PublishedOnes THEN 5 ELSE 4,
                                     qc_user_id |-> 3]]
  /\ published_jokes = [j \in PublishedOnes |-> [round_id |-> 1, team_id |-> (j + 1) \div 2]]
  /\ team_rounds_state =
       [k \in {<<1, t>> : t \in Teams} |->
          [points_earned |-> Cardinality({q \in P : (q[3] + 1) \div 2 = k[2]}),
           batches_created |-> 1,
           batches_rated |-> 1 + Cardinality({q \in P : (q[3] + 1) \div 2 = k[2]}),
           accepted_jokes |-> 1]]
  /\ customer_round_budget =
       [k \in {<<1, c>> : c \in known} |->
          [starting_budget |-> budget,
           remaining_budget |-> budget - Cardinality(Held(P, 1, k[2]))]]
  /\ purchases = P
  /\ clock = 2
  /\ faults = 0
  /\ claimed = [b \in 1..2 |-> {}]
  /\ tally = NoTally
  /\ ret = Idle
  /\ pc = [p \in Procs |-> Idle]

InitMarket ==
  \E budget \in (BudgetValues \ {0}) :
    /\ MarketState(budget, {}, {})
    /\ plan = NoPlan

NextMarket ==
  \E p \in Procs :
    \/ \E u \in Customers, j \in MarketJokes : BuyCall(p, u, 1, j)
    \/ BuyBegin(p)
    \/ BuyWrite(p)
    \/ BuyIncrement(p)
    \/ BuyCommit(p)
    \/ \E u \in Customers, j \in MarketJokes : ReturnCall(p, u, 1, j)
    \/ ReturnWrite(p)
    \/ ReturnIncrement(p)
    \/ ReturnCommit(p)

MarketFaults ==
  \E p \in Procs :
    \/ BuyAbort(p)
    \/ ReturnAbort(p)

SpecMarket == InitMarket /\ [][NextMarket]_vars

SpecMarketFault == InitMarket /\ [][NextMarket \/ MarketFaults]_vars

\* ------------------------------------------------------------------ claims: QC workflow
\* C1: once Next has returned batch b to a QC and b has not been rated since, no
\* Next call by a different QC returns b: the QCs handed b since it was last rated
\* are never two, and a Next that returns b leaves b locked by its caller alone.
C1_NoBatchClaimedTwice ==
  /\ \A b \in DOMAIN claimed : Cardinality(claimed[b]) <= 1
  /\ (ret.op = "Next" /\ ret.outcome = "OK") =>
       /\ claimed[ret.batch] = {ret.user}
       /\ batches[ret.batch].locked_by_qc = ret.user

\* A Next has just returned a batch to one QC while the other QC holds the older
\* batch, still unrated.
C1_Witness ==
  /\ ret.op = "Next" /\ ret.outcome = "OK"
  /\ \E b \in DOMAIN claimed :
       /\ b # ret.batch
       /\ batches[b].status = "SUBMITTED"
       /\ batches[b].submitted_at < batches[ret.batch].submitted_at
       /\ claimed[b] # {} /\ claimed[b] # {ret.user}

\* The Rate calls whose counter increment is done and whose transaction is open.
RatesIncremented(t) ==
  {q \in Procs : pc[q].op = "Rate" /\ pc[q].step = "incremented" /\ pc[q].team = t}

RECURSIVE SumPasses(_)
SumPasses(B) ==
  IF B = {} THEN 0
  ELSE LET b == CHOOSE x \in B : TRUE IN batches[b].passes_count + SumPasses(B \ {b})

RECURSIVE SumInFlightPasses(_)
SumInFlightPasses(Q) ==
  IF Q = {} THEN 0
  ELSE LET q == CHOOSE x \in Q : TRUE
       IN CountPasses(pc[q].ratings) + SumInFlightPasses(Q \ {q})

RatedBatchesOf(t) == {b \in BatchIds : batches[b].team_id = t /\ batches[b].status = "RATED"}

\* The counters of a team count its RATED batches, and the Rate calls about to commit.
RatedCountersMatch ==
  \A k \in DOMAIN team_rounds_state :
    /\ team_rounds_state[k].batches_rated =
         Cardinality(RatedBatchesOf(k[2])) + Cardinality(RatesIncremented(k[2]))
    /\ team_rounds_state[k].accepted_jokes =
         SumPasses(RatedBatchesOf(k[2])) + SumInFlightPasses(RatesIncremented(k[2]))

\* A step that ends a Rate call: it succeeds only on a batch that was SUBMITTED and
\* makes it RATED; otherwise it fails with Conflict and changes nothing.
RateReturns ==
  \A p \in Procs :
    (pc[p].op = "Rate" /\ pc'[p] = Idle) =>
      IF ret'.outcome = "OK"
        THEN /\ batches[pc[p].batch].status = "SUBMITTED"
             /\ batches'[pc[p].batch].status = "RATED"
        ELSE /\ ret'.outcome = "Conflict"
             /\ UNCHANGED <<batches, joke_ratings, published_jokes, team_rounds_state>>

RatedStaysRated ==
  \A b \in BatchIds : batches[b].status = "RATED" => batches'[b] = batches[b]

\* C2: under any interleaving of Rate calls on a batch at most one succeeds (it takes
\* the batch from SUBMITTED to RATED, and a RATED batch never changes again), every
\* other call fails with Conflict, and batches_rated and accepted_jokes count each
\* RATED batch once.
C2_RateOnce ==
  /\ []RatedCountersMatch
  /\ [][RateReturns /\ RatedStaysRated]_vars

\* A Rate by one QC has failed with Conflict on a batch that the other QC rated,
\* and the team's counters show one rated batch.
C2_Witness ==
  /\ ret.op = "Rate" /\ ret.outcome = "Conflict"
  /\ batches[ret.batch].status = "RATED"
  /\ \E j \in JokesOf(ret.batch) : joke_ratings[j].qc_user_id # ret.user
  /\ team_rounds_state[<<ret.round, batches[ret.batch].team_id>>].batches_rated = 1

\* The jokes a Rate request rates 5.
RatedFive(ratings) == {ratings[i].joke_id : i \in {n \in DOMAIN ratings : ratings[n].rating = 5}}

\* C8: a successful Rate publishes exactly the jokes of the batch rated 5 and returns
\* their ids, sets passes_count to their number and adds that number to the team's
\* accepted_jokes (nothing, when no joke is rated 5).
C8_PublishesFives ==
  (ret.op = "Rate" /\ ret.outcome = "OK") =>
    LET b == ret.batch
        t == batches[b].team_id
        fives == RatedFive(ret.ratings)
    IN /\ ret.value = fives
       /\ {j \in JokesOf(b) : j \in DOMAIN published_jokes} = fives
       /\ batches[b].passes_count = Cardinality(fives)
       /\ team_rounds_state[<<ret.round, t>>].accepted_jokes
            - SumPasses(RatedBatchesOf(t) \ {b})
            - SumInFlightPasses(RatesIncremented(t))
          = Cardinality(fives)

\* A Rate with one joke rated 5 and one rated 4 has succeeded.
C8_Witness ==
  /\ ret.op = "Rate" /\ ret.outcome = "OK"
  /\ Cardinality(RatedFive(ret.ratings)) = 1
  /\ Len(ret.ratings) = 2

\* C5: Rate is all-or-nothing.  After a Rate that failed or was interrupted none of
\* its effects is there, after one that succeeded all of them are: a SUBMITTED batch
\* has no rating row and no published joke, a RATED batch has a rating row for each
\* of its jokes and no lock, and the team's batches_rated and accepted_jokes count
\* the RATED batches (and the calls about to commit) and nothing else.
C5_RateAllOrNothing ==
  /\ RatedCountersMatch
  /\ \A b \in BatchIds :
       IF batches[b].status = "SUBMITTED"
         THEN \A j \in JokesOf(b) : j \notin DOMAIN joke_ratings /\ j \notin DOMAIN published_jokes
         ELSE /\ \A j \in JokesOf(b) : j \in DOMAIN joke_ratings
              /\ batches[b].locked_by_qc = 0

\* A Rate has been interrupted after its counter increment and before its commit.
C5_Witness ==
  /\ ret.op = "Rate" /\ ret.outcome = "Internal"
  /\ batches[ret.batch].status = "SUBMITTED"
  /\ RatedBatchesOf(ret.team) = {} /\ RatesIncremented(ret.team) = {}
  /\ team_rounds_state[<<ret.round, ret.team>>].batches_rated = 1

\* ------------------------------------------------------------------ claims: submit
\* The Submit calls of a team whose counter increment is done and whose
\* transaction is open.
SubmitsIncremented(r, t) ==
  {q \in Procs : pc[q].op = "Submit" /\ pc[q].step = "incremented"
                 /\ pc[q].round = r /\ pc[q].team = t}

BatchesOf(r, t) == {b \in BatchIds : batches[b].round_id = r /\ batches[b].team_id = t}

BatchesCreated(r, t) ==
  IF <<r, t>> \in DOMAIN team_rounds_state THEN team_rounds_state[<<r, t>>].batches_created ELSE 0

\* C7: for every (round, team) batches_created equals the number of batches stored
\* (a Submit about to commit counted with them), every stored batch has its jokes,
\* and this also holds after a Submit that failed or was interrupted midway.
C7_BatchesCreatedMatches ==
  /\ \A r \in Rounds, t \in Teams :
       BatchesCreated(r, t) = Cardinality(BatchesOf(r, t)) + Cardinality(SubmitsIncremented(r, t))
  /\ \A b \in BatchIds :
       /\ batches[b].status = "SUBMITTED"
       /\ Cardinality(JokesOf(b)) = rounds[batches[b].round_id].batch_size

\* A Submit has been interrupted after its counter increment: the team has no batch.
C7_Witness ==
  /\ ret.op = "Submit" /\ ret.outcome = "Internal"
  /\ BatchesOf(ret.round, ret.team) = {} /\ SubmitsIncremented(ret.round, ret.team) = {}
  /\ BatchesCreated(ret.round, ret.team) = 1

\* ------------------------------------------------------------------ claims: market
\* The Buy / Return calls on a team's joke whose points change is done and whose
\* transaction is open.
MarketIncremented(op, t) ==
  {q \in Procs : pc[q].op = op /\ pc[q].step = "incremented" /\ pc[q].team = t}

\* C6: a team's points_earned equals the number of purchases held on its published
\* jokes (a Buy or Return about to commit counted in), and each customer's starting
\* minus remaining budget equals the number of purchases the customer holds, also
\* after a Buy or Return that failed or was interrupted midway.
C6_PointsAndBudgetMatchPurchases ==
  /\ \A k \in DOMAIN team_rounds_state :
       team_rounds_state[k].points_earned =
         Cardinality(HeldOn(purchases, k[1], k[2]))
           + Cardinality(MarketIncremented("Buy", k[2]))
           - Cardinality(MarketIncremented("Return", k[2]))
  /\ \A k \in DOMAIN customer_round_budget :
       customer_round_budget[k].starting_budget - customer_round_budget[k].remaining_budget =
         Cardinality(Held(purchases, k[1], k[2]))

\* A Buy has been interrupted after the points change: the team has a point and
\* nobody holds a purchase on its jokes.
C6_Witness ==
  /\ ret.op = "Buy" /\ ret.outcome = "Internal" /\ ret.team # 0
  /\ HeldOn(purchases, ret.round, ret.team) = {}
  /\ MarketIncremented("Buy", ret.team) = {} /\ MarketIncremented("Return", ret.team) = {}
  /\ team_rounds_state[<<ret.round, ret.team>>].points_earned = 1

\* C9: every customer budget row satisfies 0 <= remaining <= starting, under any
\* interleaving of Buy and Return calls.
C9_BudgetInRange ==
  \A k \in DOMAIN customer_round_budget :
    /\ 0 <= customer_round_budget[k].remaining_budget
    /\ customer_round_budget[k].remaining_budget <= customer_round_budget[k].starting_budget

\* A Buy of a published joke that read a positive budget has been refused by the
\* budget CHECK, the customer's other Buy having spent the last unit meanwhile.
C9_Witness ==
  /\ ret.op = "Buy" /\ ret.outcome = "Internal"
  /\ ret.joke \in DOMAIN published_jokes
  /\ customer_round_budget[<<ret.round, ret.user>>].remaining_budget = 0
  /\ Cardinality(Held(purchases, ret.round, ret.user)) =
       customer_round_budget[<<ret.round, ret.user>>].starting_budget

\* ------------------------------------------------------------------ market scenarios
\* A market in which some customers have interacted and at most MaxMarketOps - 2
\* purchases are held, and the (round, customer, joke) the scenario is about, with
\* the customer's remaining budget, the points of the joke's team and whether the
\* customer already holds the joke, all as they are before the scenario's calls.
InitScenario ==
  \E budget \in (BudgetValues \ {0}), known \in SUBSET Customers,
     P \in SUBSET ({1} \X Customers \X PublishedOnes),
     c \in Customers, j \in MarketJokes :
    /\ Cardinality(P) <= MaxMarketOps - 2
    /\ \A k \in P : k[2] \in known
    /\ \A u \in Customers : Cardinality(Held(P, 1, u)) <= budget
    /\ MarketState(budget, known, P)
    /\ plan = [user |-> c, round |-> 1, joke |-> j,
               remaining |-> budget - Cardinality(Held(P, 1, c)),
               points |-> Cardinality({q \in P : (q[3] + 1) \div 2 = (j + 1) \div 2}),
               held |-> <<1, c, j>> \in P]

\* The calls of the scenario made so far.
ScenarioCalls ==
  tally.ok + tally.conflict + tally.other + Cardinality({q \in Procs : ~Free(q)})

\* Two Buy calls with the same (round, customer, joke), interleaved in any way.
NextBuyBuy ==
  \E p \in Procs :
    \/ /\ ScenarioCalls < 2
       /\ BuyCall(p, plan.user, plan.round, plan.joke)
    \/ BuyBegin(p)
    \/ BuyWrite(p)
    \/ BuyIncrement(p)
    \/ BuyCommit(p)

SpecBuyBuy == InitScenario /\ [][NextBuyBuy]_vars

\* A Buy and, when it has succeeded, the Return of the same joke right after it.
NextBuyReturn ==
  \/ /\ ScenarioCalls = 0
     /\ BuyCall(1, plan.user, plan.round, plan.joke)
  \/ BuyBegin(1)
  \/ BuyWrite(1)
  \/ BuyIncrement(1)
  \/ BuyCommit(1)
  \/ /\ ScenarioCalls = 1 /\ tally.ok = 1
     /\ ReturnCall(1, plan.user, plan.round, plan.joke)
  \/ ReturnWrite(1)
  \/ ReturnIncrement(1)
  \/ ReturnCommit(1)

SpecBuyReturn == InitScenario /\ [][NextBuyReturn]_vars

ScenarioTeam == published_jokes[plan.joke].team_id

ScenarioRemaining == customer_round_budget[<<plan.round, plan.user>>].remaining_budget

ScenarioPoints == team_rounds_state[<<plan.round, ScenarioTeam>>].points_earned

\* C3: of two Buy calls with the same (round, customer, joke), the joke being
\* published, not yet held and within the budget, exactly one succeeds and the
\* other fails with Conflict; the remaining budget has gone down by exactly 1 and
\* the owning team's points up by exactly 1.
C3_OneBuyWins ==
  (/\ tally.ok + tally.conflict + tally.other = 2
   /\ plan.joke \in DOMAIN published_jokes /\ plan.remaining >= 1 /\ ~plan.held) =>
    /\ tally.ok = 1 /\ tally.conflict = 1
    /\ <<plan.round, plan.user, plan.joke>> \in purchases
    /\ ScenarioRemaining = plan.remaining - 1
    /\ ScenarioPoints = plan.points + 1

\* Both Buy calls have returned, the last one with Conflict although one unit of
\* the budget of 2 is left: it was refused by the unique key of purchases.
C3_Witness ==
  /\ tally.ok = 1 /\ tally.conflict = 1
  /\ ret.op = "Buy" /\ ret.outcome = "Conflict"
  /\ plan.remaining = 2 /\ ScenarioRemaining = 1

\* C10: when Buy(round, customer, joke) succeeds, the Return that follows it
\* succeeds and leaves the customer's remaining budget and the owning team's
\* points_earned as they were before the Buy, and the purchase absent.
C10_BuyReturnRestores ==
  (ScenarioCalls = 2 /\ Free(1)) =>
    /\ tally.ok = 2
    /\ ret.op = "Return" /\ ret.outcome = "OK"
    /\ <<plan.round, plan.user, plan.joke>> \notin purchases
    /\ ScenarioRemaining = plan.remaining
    /\ ret.aux = plan.remaining
    /\ ScenarioPoints = plan.points

\* The Return after a successful Buy has returned.
C10_Witness ==
  /\ ScenarioCalls = 2 /\ Free(1)
  /\ ret.op = "Return" /\ ret.outcome = "OK"
  /\ plan.points = 1

\* ------------------------------------------------------------------ buying out the budget
\* One customer, whose budget row does not exist yet, buys again and again in a
\* round configured with any budget, 0 included.
InitBuyOut ==
  \E budget \in BudgetValues, c \in Customers :
    /\ MarketState(budget, {}, {})
    /\ plan = [NoPlan EXCEPT !.user = c, !.round = 1, !.remaining = budget]

NextBuyOut ==
  \/ /\ ScenarioCalls <= MaxMarketOps
     /\ \E j \in MarketJokes : BuyCall(1, plan.user, plan.round, j)
  \/ BuyBegin(1)
  \/ BuyWrite(1)
  \/ BuyIncrement(1)
  \/ BuyCommit(1)

SpecBuyOut == InitBuyOut /\ [][NextBuyOut]_vars

\* After as many successful buys as the starting budget the remaining budget is 0.
BoughtOut ==
  /\ tally.ok <= plan.remaining
  /\ (tally.ok = plan.remaining /\ <<plan.round, plan.user>> \in DOMAIN customer_round_budget) =>
       customer_round_budget[<<plan.round, plan.user>>].remaining_budget = 0

\* A Buy that returns once the budget is spent fails with Conflict; it leaves the
\* purchases, the team counters and the budget as they were (the budget row being
\* there from the first market interaction on).
BuyAfterBoughtOut ==
  (pc[1].op = "Buy" /\ pc'[1] = Idle /\ tally.ok = plan.remaining) =>
    /\ ret'.outcome = "Conflict"
    /\ UNCHANGED <<purchases, team_rounds_state>>
    /\ customer_round_budget' =
         EnsureCustomerBudget(customer_round_budget, plan.round, plan.user, plan.remaining)
    /\ customer_round_budget'[<<plan.round, plan.user>>].remaining_budget = 0

\* C11: a customer whose budget starts at B has, after B successful buys of distinct
\* published jokes, a remaining budget of 0, and the next Buy fails with Conflict
\* and changes no purchase, no budget and no team counter.
C11_BuyBlockedAtZero ==
  /\ []BoughtOut
  /\ [][BuyAfterBoughtOut]_vars

\* The budget is spent and a Buy of a joke the customer does not hold has failed
\* with Conflict.
C11_Witness ==
  /\ ret.op = "Buy" /\ ret.outcome = "Conflict"
  /\ plan.remaining >= 1 /\ tally.ok = plan.remaining
  /\ <<ret.round, ret.user, ret.joke>> \notin purchases

InitGame ==
  /\ users = InitUsers
  /\ rounds = RoundsStarted
  /\ teams = 2
  /\ now = 0
  /\ batches = <<[NewBatch(1, 1, 1) EXCEPT !.status = "RATED", !.avg_score = 450,
                                          !.passes_count = 1]>>
  /\ jokes = [j \in 1..2 |-> [batch_id |-> 1]]
  /\ joke_ratings = [j \in 1..2 |-> [rating |-> IF j = 1 THEN 5 ELSE 4, qc_user_id |-> 3]]
  /\ published_jokes = [j \in {1} |-> [round_id |-> 1, team_id |-> 1]]
  /\ team_rounds_state =
       [k \in {<<1, 1>>} |-> [NoStats EXCEPT !.batches_created = 1, !.batches_rated = 1,
                                              !.accepted_jokes = 1]]
  /\ customer_round_budget = EmptyFn
  /\ purchases = {}
  /\ clock = 1
  /\ faults = 0
  /\ plan = NoPlan
  /\ claimed = <<{}>>
  /\ tally = NoTally
  /\ ret = Idle
  /\ pc = [p \in Procs |-> Idle]

NextGame ==
  \/ \E r \in Rounds : StartRound(1, r, MaxBudget, 2)
  \/ \E r \in Rounds : EndRound(1, r)
  \/ \E r \in Rounds : SubmitCall(1, 1, r, users[1].team_id, 2)
  \/ SubmitInsert(1)
  \/ SubmitIncrement(1)
  \/ SubmitCommit(1)
  \/ \E u \in QCs, r \in Rounds : NextCall(1, u, r)
  \/ NextSelect(1)
  \/ NextCommit(1)
  \/ \E u \in QCs, b \in BatchIds, l \in {<<5, 4>>} : RateCall(1, u, b, RatingPairs(b, l))
  \/ RateLock(1)
  \/ RateIncrement(1)
  \/ RateCommit(1)
  \/ \E r \in Rounds, j \in {1, 2} : BuyCall(1, 5, r, j)
  \/ BuyBegin(1)
  \/ BuyWrite(1)
  \/ BuyIncrement(1)
  \/ BuyCommit(1)
  \/ \E r \in Rounds, j \in {1, 2} : ReturnCall(1, 5, r, j)
  \/ ReturnWrite(1)
  \/ ReturnIncrement(1)
  \/ ReturnCommit(1)

SpecGame == InitGame /\ [][NextGame]_vars

\* What the store holds.
stored ==
  <<users, teams, rounds, team_rounds_state, batches, jokes, joke_ratings, published_jokes,
    customer_round_budget, purchases>>

GuardedOps == {"Submit", "Next", "Rate", "Buy", "Return"}

\* The call slot 1 makes in this step, if it makes one: it goes on or returns at once.
CallMade == IF pc'[1] # Idle THEN pc'[1] ELSE ret'

RoundTransitions ==
  {<<"NONE", "CONFIGURED">>, <<"CONFIGURED", "ACTIVE">>, <<"ACTIVE", "ENDED">>,
   <<"ENDED", "ACTIVE">>}

\* C14: across configure, start and end calls a round's status changes only along
\* CONFIGURED -> ACTIVE, ACTIVE -> ENDED and ENDED -> ACTIVE (and from absent to
\* CONFIGURED when it is created): end never moves a CONFIGURED round to ENDED and
\* no call returns a round to CONFIGURED.
C14_StatusTransitions ==
  [][\A r \in Rounds :
       rounds'[r].status # rounds[r].status =>
         <<rounds[r].status, rounds'[r].status>> \in RoundTransitions]_vars

\* ------------------------------------------------------------------ claims: QC queue
\* The QC workflow with one request at a time.
NextQCSeq ==
  \/ \E u \in QCs : NextCall(1, u, 1)
  \/ NextSelect(1)
  \/ NextCommit(1)
  \/ \E u \in QCs, b \in BatchIds, l \in RatingLists : RateCall(1, u, b, RatingPairs(b, l))
  \/ RateLock(1)
  \/ RateIncrement(1)
  \/ RateCommit(1)

SpecQCSeq == InitQC /\ [][NextQCSeq]_vars

\* The batches of round r that QC q can be given: SUBMITTED and unlocked or locked
\* by q.
Available(r, q) ==
  {b \in BatchIds : /\ batches[b].round_id = r
                    /\ batches[b].status = "SUBMITTED"
                    /\ batches[b].locked_by_qc \in {0, q}}

\* C15: a Next by QC q that returns a batch returns the one with the earliest
\* submission time among the round's SUBMITTED batches that are unlocked or locked
\* by q, and leaves it locked by q; a batch locked by a different QC is never
\* returned and does not keep q from a newer batch: Next finds no batch only when
\* none is unlocked or locked by q.
C15_OldestFirst ==
  /\ (ret.op = "Next" /\ ret.outcome = "OK") =>
       /\ batches[ret.batch].round_id = ret.round
       /\ batches[ret.batch].status = "SUBMITTED"
       /\ batches[ret.batch].locked_by_qc = ret.user
       /\ \A o \in Available(ret.round, ret.user) :
            batches[ret.batch].submitted_at <= batches[o].submitted_at
  /\ (ret.op = "Next" /\ ret.outcome = "NotFound") => Available(ret.round, ret.user) = {}

\* A QC has been given the newer batch while the older one is SUBMITTED and locked
\* by the other QC.
C15_Witness ==
  /\ ret.op = "Next" /\ ret.outcome = "OK"
  /\ \E o \in BatchIds :
       /\ batches[o].status = "SUBMITTED"
       /\ batches[o].submitted_at < batches[ret.batch].submitted_at
       /\ batches[o].locked_by_qc \notin {0, ret.user}
\* C16: a Rate by a QC on a SUBMITTED batch whose lock holder is a different QC
\* returns Conflict from the test made under the row lock, in a step that leaves the
\* batch (SUBMITTED, locked by the holder), the rating rows, the published jokes and
\* the team counters unchanged.
C16_LockedByOtherRejected ==
  [][\A p \in Procs :
       (/\ pc[p].op = "Rate" /\ pc[p].step = "checked"
        /\ pc'[p] # pc[p]
        /\ batches[pc[p].batch].status = "SUBMITTED"
        /\ batches[pc[p].batch].locked_by_qc \notin {0, pc[p].user})
       => /\ pc'[p] = Idle
          /\ ret'.op = "Rate" /\ ret'.user = pc[p].user /\ ret'.batch = pc[p].batch
          /\ ret'.outcome = "Conflict"
          /\ UNCHANGED <<batches, joke_ratings, published_jokes, team_rounds_state>>]_vars

\* A Rate has returned Conflict on a batch that is SUBMITTED and locked by the other QC.
C16_Witness ==
  /\ ret.op = "Rate" /\ ret.outcome = "Conflict"
  /\ batches[ret.batch].status = "SUBMITTED"
  /\ batches[ret.batch].locked_by_qc \notin {0, ret.user}
\* The QC workflow, one request at a time, where the ratings of a Rate request may
\* name the jokes of any batch: the request carries the joke ids.
NextRateNamed ==
  \/ \E u \in QCs : NextCall(1, u, 1)
  \/ NextSelect(1)
  \/ NextCommit(1)
  \/ \E u \in QCs, b \in BatchIds, n \in BatchIds, l \in RatingLists :
       RateCall(1, u, b, RatingPairs(n, l))
  \/ RateLock(1)
  \/ RateIncrement(1)
  \/ RateCommit(1)

SpecRateNamed == InitQC /\ [][NextRateNamed]_vars

\* The rating rows of the jokes of batch b.
RatingRows(b) ==
  [j \in JokesOf(b) \cap DOMAIN joke_ratings |-> joke_ratings[j]]

\* C17: a RATED batch keeps its status, avg_score and passes_count, and the rating
\* rows of its jokes keep their values, in every later step of any operation.
C17_RatedImmutable ==
  [][\A b \in BatchIds :
       batches[b].status = "RATED" =>
         /\ batches'[b] = batches[b]
         /\ RatingRows(b)' = RatingRows(b)]_vars

\* A Rate of another batch has returned OK with ratings that name the jokes of a
\* RATED batch.
C17_Witness ==
  /\ ret.op = "Rate" /\ ret.outcome = "OK"
  /\ \E i \in DOMAIN ret.ratings :
       /\ jokes[ret.ratings[i].joke_id].batch_id # ret.batch
       /\ batches[jokes[ret.ratings[i].joke_id].batch_id].status = "RATED"
\* C18: a Submit, Next, Rate, Buy or Return that returns an error leaves all stored
\* state as it was before the call; stated here for the last step of the call, the
\* one that returns the error, which by the claim changes no table either.
C18_ErrorLeavesStateUnchanged ==
  [][(ret'.op \in GuardedOps /\ ret'.outcome # "OK") => UNCHANGED stored]_vars

\* A Buy or Return has returned an error to a customer whose budget row exists.
C18_Witness ==
  /\ ret.op \in {"Buy", "Return"} /\ ret.outcome \notin {"OK", "Forbidden"}
  /\ <<ret.round, ret.user>> \in DOMAIN customer_round_budget
\* ------------------------------------------------------------------ users and assignment
\* In the lobby the users table is user_id -> [name, role, team_id, status]; role
\* "NULL" and team_id 0 are NULL, status "NONE" is an id not yet handed out by the
\* serial and "DELETED" a deleted row (ids are not reused).
LobbyIds == 1..MaxUsers
Names == {1, 2}
NoUser == [name |-> 0, role |-> "NULL", team_id |-> 0, status |-> "NONE"]

UserExists(u) == users[u].status \in {"WAITING", "ASSIGNED"}

\* CONSTRAINT users_team_id_role_chk
UsersCheckAllowsAny(role, team) == TRUE

UsersCheckAllows(role, team) ==
  \/ role = "NULL" /\ team = 0
  \/ role \in {"JM", "QC"} /\ team # 0
  \/ role \in {"INSTRUCTOR", "CUSTOMER"} /\ team = 0

\* GetUserByDisplayName: the rows with the display name (no unique index on it).
UsersNamed(name) == {u \in LobbyIds : UserExists(u) /\ users[u].name = name}

\* The id the serial hands out next.
NextUserId == CHOOSE u \in LobbyIds : users[u].status = "NONE" /\ \A v \in 1..(u - 1) : users[v].status # "NONE"

\* CreateUser: INSERT INTO users (display_name); role and team_id NULL, status WAITING.
CreateUser(us, u, name) ==
  [us EXCEPT ![u] = [name |-> name, role |-> "NULL", team_id |-> 0, status |-> "WAITING"]]

\* UPDATE users SET role = $2, team_id = $3 WHERE user_id = $1
UpdateUserAssignment(us, u, role, team) ==
  [us EXCEPT ![u].role = role, ![u].team_id = team]

\* SessionService.Join: the user with the display name is reused; a new row is
\* created when there is none or when the one found is an instructor.
Join(p, name) ==
  /\ Free(p)
  /\ LET c == [Call("Join", "join", 0, 0) EXCEPT !.n = name] IN
       \/ \E u \in UsersNamed(name) :
            /\ users[u].role # "INSTRUCTOR"
            /\ Finish(p, [c EXCEPT !.user = u], "OK")
            /\ UNCHANGED users
       \/ /\ \/ UsersNamed(name) = {}
             \/ \E u \in UsersNamed(name) : users[u].role = "INSTRUCTOR"
          /\ \E u \in LobbyIds : users[u].status = "NONE"
          /\ users' = CreateUser(users, NextUserId, name)
          /\ Finish(p, [c EXCEPT !.user = NextUserId], "OK")
  /\ UNCHANGED <<dbRounds, team_rounds_state, dbBatch, dbMarket, faults, plan, claimed>>

\* AdminAuthService.Login with the right password: get or create the user, then
\* UpdateUserAssignment(user, INSTRUCTOR, nil).
AdminLogin(p, name) ==
  /\ Free(p)
  /\ LET c == [Call("AdminLogin", "login", 0, 0) EXCEPT !.n = name] IN
       \/ \E u \in UsersNamed(name) :
            /\ users' = UpdateUserAssignment(users, u, "INSTRUCTOR", 0)
            /\ Finish(p, [c EXCEPT !.user = u], "OK")
       \/ /\ UsersNamed(name) = {}
          /\ \E u \in LobbyIds : users[u].status = "NONE"
          /\ users' = UpdateUserAssignment(CreateUser(users, NextUserId, name),
                                           NextUserId, "INSTRUCTOR", 0)
          /\ Finish(p, [c EXCEPT !.user = NextUserId], "OK")
  /\ UNCHANGED <<dbRounds, team_rounds_state, dbBatch, dbMarket, faults, plan, claimed>>

\* InstructorService.DeleteUser -> DeleteUser: one transaction that refuses an
\* instructor and deletes the row.
DeleteUser(p, u) ==
  /\ Free(p)
  /\ LET c == Call("DeleteUser", "delete", u, 0) IN
       IF ~UserExists(u)
         THEN /\ Finish(p, c, "NotFound")
              /\ UNCHANGED <<users, customer_round_budget>>
         ELSE IF users[u].role = "INSTRUCTOR"
           THEN /\ Finish(p, c, "Conflict")
                /\ UNCHANGED <<users, customer_round_budget>>
           ELSE /\ users' = [users EXCEPT ![u] = [NoUser EXCEPT !.status = "DELETED"]]
                /\ customer_round_budget' =
                     [k \in {x \in DOMAIN customer_round_budget : x[2] # u} |->
                        customer_round_budget[k]]
                /\ Finish(p, c, "OK")
  /\ UNCHANGED <<dbRounds, team_rounds_state, dbBatch, purchases, faults, plan, claimed>>

\* InstructorService.PatchUser: the role and team wanted, from the request (role
\* "KEEP" and team 0 are fields left out) and the existing row.
DesiredRole(existing, status, role) ==
  IF status = "WAITING" THEN "NULL"
  ELSE IF role # "KEEP" THEN role
  ELSE existing.role

\* The team wanted when no role clears it.
DesiredTeamSupplied(existing, status, role, team) ==
  IF status = "WAITING" THEN 0
  ELSE IF team # 0 THEN team
  ELSE existing.team_id

DesiredTeam(existing, status, role, team) ==
  IF status = "WAITING" THEN 0
  ELSE IF DesiredRole(existing, status, role) \in {"CUSTOMER", "INSTRUCTOR"} THEN 0
  ELSE IF team # 0 THEN team
  ELSE existing.team_id

\* PatchUser up to the call of PatchUserInRound; .n and .value.asked keep the team
\* and the role of the request, .team and .value.role the ones wanted.
PatchCall(p, r, u, status, role, team) ==
  /\ Free(p)
  /\ IF ~UserExists(u) THEN Finish(p, Call("PatchUser", "desired", u, r), "NotFound")
     ELSE LET dr == DesiredRole(users[u], status, role)
              dt == DesiredTeam(users[u], status, role, team)
              c == [Call("PatchUser", "desired", u, r) EXCEPT
                      !.team = dt, !.n = team,
                      !.value = {[role |-> dr, status |-> status, asked |-> role]}]
          IN IF dr \in {"JM", "QC"} /\ dt = 0
               THEN Finish(p, c, "Validation")
               ELSE Goto(p, c)
  /\ UNCHANGED <<users, dbRounds, team_rounds_state, dbBatch, dbMarket, faults, plan, claimed>>

\* PatchUserInRound: one transaction that writes status, role and team_id (refused by
\* the CHECK on users and by team_id REFERENCES teams) and keeps
\* the customer's budget row of the round: created on becoming CUSTOMER, deleted on
\* leaving CUSTOMER.
PatchUserInRound(p) ==
  /\ pc[p].op = "PatchUser" /\ pc[p].step = "desired"
  /\ LET u == pc[p].user
         r == pc[p].round
         d == CHOOSE x \in pc[p].value : TRUE
     IN
       IF ~UserExists(u)
         THEN /\ Finish(p, pc[p], "NotFound")
              /\ UNCHANGED <<users, customer_round_budget>>
         ELSE IF ~UsersCheckAllows(d.role, pc[p].team) \/ pc[p].team > teams
           THEN /\ Finish(p, pc[p], "Internal")
                /\ UNCHANGED <<users, customer_round_budget>>
           ELSE /\ users' = [UpdateUserAssignment(users, u, d.role, pc[p].team)
                               EXCEPT ![u].status = d.status]
                /\ customer_round_budget' =
                     IF d.role = "CUSTOMER"
                       THEN EnsureCustomerBudget(customer_round_budget, r, u,
                                                 rounds[r].customer_budget)
                     ELSE [k \in DOMAIN customer_round_budget \ {<<r, u>>} |->
                             customer_round_budget[k]]
                /\ Finish(p, pc[p], "OK")
  /\ UNCHANGED <<dbRounds, team_rounds_state, dbBatch, purchases, faults, plan, claimed>>

\* Assign: the role and team of the participant at index i of the shuffled list, for
\* teamCount teams and customerCount customers.
AssignedRole(i, teamCount, customerCount) ==
  IF i < 2 * teamCount THEN (IF i % 2 = 0 THEN "JM" ELSE "QC")
  ELSE IF i < 2 * teamCount + customerCount THEN "CUSTOMER"
  ELSE "NULL"

AssignedTeamFirst(i, teamCount) ==
  IF i < 2 * teamCount THEN 1 ELSE 0

AssignedTeam(i, teamCount) ==
  IF i < 2 * teamCount THEN (i \div 2) + 1 ELSE 0

\* EnsureTeamCount: inserts "Team i" for i from the current count up to teamCount and
\* returns all the teams there are.
EnsureTeamCount(n, teamCount) == IF n < teamCount THEN teamCount ELSE n

\* Assign up to the shuffle: EnsureTeamCount, the WAITING and ASSIGNED users that
\* are no instructors; .team is the number of teams returned, .value keeps the
\* participants still to be handled, .n is assignIdx.
AssignCall(p, r, teamCount, customerCount) ==
  /\ Free(p)
  /\ teams' = EnsureTeamCount(teams, teamCount)
  /\ Goto(p, [Call("Assign", "assigning", 0, r) EXCEPT
                !.team = EnsureTeamCount(teams, teamCount), !.aux = customerCount,
                !.value = {u \in DOMAIN users : UserExists(u) /\ users[u].role # "INSTRUCTOR"}])
  /\ UNCHANGED <<users, rounds, now, team_rounds_state, dbBatch, dbMarket, faults, plan, claimed>>

\* The rows EnsureTeamRoundState has added for the first k teams.
RECURSIVE EnsureTeams(_, _, _)
EnsureTeams(trs, r, k) ==
  IF k = 0 THEN trs ELSE EnsureTeamRoundState(EnsureTeams(trs, r, k - 1), r, k)

\* Assign: the next participant in shuffle order (any of those left) gets the role of
\* its index by UpdateUserAssignment and, with a role, MarkUserAssigned, else
\* UpdateUserStatus(WAITING); each is a statement of its own on the pool, and a
\* user deleted meanwhile ends the Assign with NotFound.  EnsureTeamRoundState
\* follows the QC of each team; GetLobby ends the call.
AssignStep(p) ==
  /\ pc[p].op = "Assign" /\ pc[p].step = "assigning"
  /\ LET i == pc[p].n
         tc == pc[p].team
         role == AssignedRole(i, tc, pc[p].aux)
         team == AssignedTeam(i, tc)
     IN
       IF pc[p].value = {}
         THEN /\ team_rounds_state' = EnsureTeams(team_rounds_state, pc[p].round, tc)
              /\ Finish(p, pc[p], "OK")
              /\ UNCHANGED users
         ELSE \E u \in pc[p].value :
                IF ~UserExists(u)
                  THEN /\ Finish(p, [pc[p] EXCEPT !.user = u], "NotFound")
                       /\ UNCHANGED <<users, team_rounds_state>>
                  ELSE IF ~UsersCheckAllows(role, team)
                    THEN /\ Finish(p, [pc[p] EXCEPT !.user = u], "Internal")
                         /\ UNCHANGED <<users, team_rounds_state>>
                    ELSE /\ users' = [UpdateUserAssignment(users, u, role, team) EXCEPT
                                        ![u].status = IF role = "NULL" THEN "WAITING"
                                                      ELSE "ASSIGNED"]
                         /\ team_rounds_state' =
                              IF role = "QC"
                                THEN EnsureTeamRoundState(team_rounds_state, pc[p].round, team)
                                ELSE team_rounds_state
                         /\ Goto(p, [pc[p] EXCEPT !.n = i + 1, !.value = @ \ {u}])
  /\ UNCHANGED <<dbRounds, dbBatch, dbMarket, faults, plan, claimed>>

InitLobby ==
  /\ users = [u \in LobbyIds |-> NoUser]
  /\ rounds = RoundsStarted
  /\ teams = 0
  /\ now = 0
  /\ team_rounds_state = EmptyFn
  /\ batches = <<>>
  /\ jokes = <<>>
  /\ joke_ratings = EmptyFn
  /\ published_jokes = EmptyFn
  /\ customer_round_budget = EmptyFn
  /\ purchases = {}
  /\ clock = 0
  /\ faults = 0
  /\ plan = NoPlan
  /\ claimed = <<>>
  /\ tally = NoTally
  /\ ret = Idle
  /\ pc = [p \in Procs |-> Idle]

PatchRoles == {"KEEP", "JM", "CUSTOMER"}

\* Slot 1 runs Assign; slot 2 runs the requests that change one user.
NextLobby ==
  \/ \E name \in Names : Join(2, name)
  \/ \E name \in Names : AdminLogin(2, name)
  \/ \E u \in LobbyIds : DeleteUser(2, u)
  \/ \E u \in LobbyIds, status \in {"WAITING", "ASSIGNED"}, role \in PatchRoles,
        team \in {0, 1} : PatchCall(2, 1, u, status, role, team)
  \/ PatchUserInRound(2)
  \/ \E teamCount \in {0, 1}, customerCount \in {0, 1} : AssignCall(1, 1, teamCount, customerCount)
  \/ AssignStep(1)

SpecLobby == InitLobby /\ [][NextLobby]_vars

StatTeams == 1..3

\* The teams with a team_rounds_state row in round r: the rows the window ranks.
StatsRows(r) == {t \in StatTeams : <<r, t>> \in DOMAIN team_rounds_state}

PointsOf(r, t) == team_rounds_state[<<r, t>>].points_earned

\* ORDER BY points_earned DESC: the teams of S from most to fewest points (peers in
\* team order, which does not change their rank).
RECURSIVE OrderByPointsDesc(_, _)
OrderByPointsDesc(r, S) ==
  IF S = {} THEN <<>>
  ELSE LET top == CHOOSE t \in S :
                    \A o \in S : \/ PointsOf(r, o) < PointsOf(r, t)
                                 \/ PointsOf(r, o) = PointsOf(r, t) /\ t <= o
       IN <<top>> \o OrderByPointsDesc(r, S \ {top})

\* RANK(): a row that starts a new peer group gets its row number.
RECURSIVE RankWithGaps(_, _, _)
RankWithGaps(r, order, i) ==
  IF i = 1 THEN 1
  ELSE IF PointsOf(r, order[i]) = PointsOf(r, order[i - 1]) THEN RankWithGaps(r, order, i - 1)
  ELSE i

\* DENSE_RANK() OVER (ORDER BY points_earned DESC): walking the ordered rows, the
\* rank grows by one whenever the points change.
RECURSIVE DenseRank(_, _, _)
DenseRank(r, order, i) ==
  IF i = 1 THEN 1
  ELSE IF PointsOf(r, order[i]) = PointsOf(r, order[i - 1]) THEN DenseRank(r, order, i - 1)
  ELSE DenseRank(r, order, i - 1) + 1

\* The rows of the leaderboard query: rank, team and points of every team of the round.
RankedRows(r) ==
  LET order == OrderByPointsDesc(r, StatsRows(r)) IN
    {[rank |-> DenseRank(r, order, i), team_id |-> order[i], points |-> PointsOf(r, order[i])] :
       i \in DOMAIN order}

\* InstructorService.Stats -> GetRoundStatsV2 -> GetRoundStats: the leaderboard.
GetRoundStats(p, r) ==
  /\ Free(p)
  /\ Finish(p, [Call("Stats", "read", 0, r) EXCEPT !.value = RankedRows(r)], "OK")
  /\ UNCHANGED <<users, dbRounds, team_rounds_state, dbBatch, dbMarket, faults, plan, claimed>>

\* GetTeamSummary: the row of the team joined with its rank among the round's teams.
GetTeamSummary(p, r, t) ==
  /\ Free(p)
  /\ LET c == [Call("TeamSummary", "read", 0, r) EXCEPT !.team = t] IN
       IF t \notin StatsRows(r) THEN Finish(p, c, "NotFound")
       ELSE Finish(p, [c EXCEPT !.value = {row \in RankedRows(r) : row.team_id = t}], "OK")
  /\ UNCHANGED <<users, dbRounds, team_rounds_state, dbBatch, dbMarket, faults, plan, claimed>>

\* Round 1 with any of the teams holding a row and any points up to MaxPoints.
InitStats ==
  \E S \in SUBSET StatTeams :
    \E pts \in [S -> 0..MaxPoints] :
      /\ users = InitUsers
      /\ rounds = RoundsStarted
      /\ teams = 2
      /\ now = 0
      /\ team_rounds_state =
           [k \in {<<1, t>> : t \in S} |-> [NoStats EXCEPT !.points_earned = pts[k[2]]]]
      /\ batches = <<>>
      /\ jokes = <<>>
      /\ joke_ratings = EmptyFn
      /\ published_jokes = EmptyFn
      /\ customer_round_budget = EmptyFn
      /\ purchases = {}
      /\ clock = 0
      /\ faults = 0
      /\ plan = NoPlan
      /\ claimed = <<>>
      /\ tally = NoTally
      /\ ret = Idle
      /\ pc = [p \in Procs |-> Idle]

NextStats ==
  \/ GetRoundStats(1, 1)
  \/ \E t \in StatTeams : GetTeamSummary(1, 1, t)

SpecStats == InitStats /\ [][NextStats]_vars

\* C20: in the leaderboard and in the team summary of a round, the rank of a team is
\* 1 plus the number of distinct points_earned values of the round above its own, and
\* the leaderboard has a row for every team of the round.
C20_DenseRank ==
  (ret.op \in {"Stats", "TeamSummary"} /\ ret.outcome = "OK") =>
    /\ \A row \in ret.value :
         /\ row.team_id \in StatsRows(ret.round)
         /\ row.points = PointsOf(ret.round, row.team_id)
         /\ row.rank = 1 + Cardinality({PointsOf(ret.round, o) : o \in StatsRows(ret.round)}
                                         \cap {v \in 0..(MaxPoints + 1) : v > row.points})
    /\ ret.op = "Stats" => {row.team_id : row \in ret.value} = StatsRows(ret.round)
    /\ ret.op = "TeamSummary" => {row.team_id : row \in ret.value} = {ret.team}

\* A leaderboard of three teams, two sharing the most points: ranks 1, 1, 2.
C20_Witness ==
  /\ ret.op = "Stats" /\ ret.outcome = "OK"
  /\ {<<row.team_id, row.rank>> : row \in ret.value} = {<<1, 1>>, <<2, 1>>, <<3, 2>>}
  /\ PointsOf(1, 1) = PointsOf(1, 2) /\ PointsOf(1, 3) < PointsOf(1, 1)
\* ------------------------------------------------------------------ batches of three
\* Round 1 ACTIVE with one SUBMITTED batch of three jokes, of team 1.
InitRateThree ==
  /\ users = InitUsers
  /\ rounds = [RoundsStarted EXCEPT ![1].batch_size = 3]
  /\ teams = 2
  /\ now = 0
  /\ batches = SubmittedBatches(<<1>>)
  /\ jokes = [j \in 1..3 |-> [batch_id |-> 1]]
  /\ team_rounds_state =
       [k \in {<<1, 1>>} |-> [NoStats EXCEPT !.batches_created = 1]]
  /\ joke_ratings = EmptyFn
  /\ published_jokes = EmptyFn
  /\ customer_round_budget = EmptyFn
  /\ purchases = {}
  /\ clock = 1
  /\ faults = 0
  /\ plan = NoPlan
  /\ claimed = <<{}>>
  /\ tally = NoTally
  /\ ret = Idle
  /\ pc = [p \in Procs |-> Idle]

\* Rate requests with one rating of 3, 4 or 5 for each joke of the batch, one request
\* at a time.
NextRateThree ==
  \/ \E u \in QCs, b \in BatchIds, l \in [1..3 -> {3, 4, 5}] : RateCall(1, u, b, RatingPairs(b, l))
  \/ RateLock(1)
  \/ RateIncrement(1)
  \/ RateCommit(1)

SpecRateThree == InitRateThree /\ [][NextRateThree]_vars

\* C21: a successful Rate leaves the batch RATED with avg_score the sum of the ratings
\* divided by their number (kept to two decimals, 13/3 as 4.33), passes_count the
\* number of ratings equal to 5 (a 4 is no pass), that many jokes of the batch
\* published and the team's accepted_jokes raised by that number.
C21_MeanAndPasses ==
  (ret.op = "Rate" /\ ret.outcome = "OK") =>
    LET b == ret.batch
        t == batches[b].team_id
        n == Len(ret.ratings)
        total == SumSeq([i \in DOMAIN ret.ratings |-> ret.ratings[i].rating])
        fives == Cardinality({i \in DOMAIN ret.ratings : ret.ratings[i].rating = 5})
        diff == 100 * total - n * batches[b].avg_score
    IN /\ batches[b].status = "RATED"
       /\ 2 * diff <= n /\ 2 * diff > -n
       /\ batches[b].passes_count = fives
       /\ Cardinality({j \in JokesOf(b) : j \in DOMAIN published_jokes}) = fives
       /\ team_rounds_state[<<ret.round, t>>].accepted_jokes
            - SumPasses(RatedBatchesOf(t) \ {b}) = fives

\* A batch of three jokes has been rated 5, 5, 3: avg_score 4.33, two passes.
C21_Witness ==
  /\ ret.op = "Rate" /\ ret.outcome = "OK"
  /\ [i \in DOMAIN ret.ratings |-> ret.ratings[i].rating] = <<5, 5, 3>>
  /\ batches[ret.batch].avg_score = 433
  /\ batches[ret.batch].passes_count = 2
  /\ team_rounds_state[<<1, batches[ret.batch].team_id>>].accepted_jokes >= 2
\* A Return that reaches the repository for a triple without a committed purchase
\* returns Conflict in that step; purchases and team counters stay, and so does the
\* budget (a customer without a budget row gets the row of an untouched budget).
ReturnWithoutPurchase ==
  \A p \in Procs :
    (/\ pc[p].op = "Return" /\ pc[p].step = "checked"
     /\ pc'[p] # pc[p]
     /\ <<pc[p].round, pc[p].user, pc[p].joke>> \notin purchases)
    => /\ pc'[p] = Idle
       /\ ret'.op = "Return" /\ ret'.user = pc[p].user /\ ret'.joke = pc[p].joke
       /\ ret'.outcome = "Conflict"
       /\ UNCHANGED <<purchases, team_rounds_state>>
       /\ customer_round_budget' =
            EnsureCustomerBudget(customer_round_budget, pc[p].round, pc[p].user,
                                 rounds[pc[p].round].customer_budget)

\* C22: a Return of a (round, customer, joke) without a purchase fails with Conflict
\* and changes neither the budget nor any team's points; a successful Return leaves
\* no purchase of the triple, so a second Return of it is such a call.
C22_ReturnNeedsPurchase ==
  /\ []((ret.op = "Return" /\ ret.outcome = "OK") =>
          <<ret.round, ret.user, ret.joke>> \notin purchases)
  /\ [][ReturnWithoutPurchase]_vars

\* A Return has failed with Conflict for a customer who bought and returned before.
C22_Witness ==
  /\ ret.op = "Return" /\ ret.outcome = "Conflict"
  /\ <<ret.round, ret.user, ret.joke>> \notin purchases
  /\ <<ret.round, ret.user>> \in DOMAIN customer_round_budget
  /\ customer_round_budget[<<ret.round, ret.user>>].remaining_budget
       = customer_round_budget[<<ret.round, ret.user>>].starting_budget
  /\ MarketOps >= 2
  /\ purchases = {}
\* ------------------------------------------------------------------ assignment alone
\* What a user row can hold before an Assign.
PriorUsers ==
  {[role |-> "NULL", team_id |-> 0, status |-> "WAITING"],
   [role |-> "JM", team_id |-> 1, status |-> "ASSIGNED"],
   [role |-> "QC", team_id |-> 1, status |-> "ASSIGNED"],
   [role |-> "CUSTOMER", team_id |-> 0, status |-> "ASSIGNED"],
   [role |-> "INSTRUCTOR", team_id |-> 0, status |-> "WAITING"]}

\* One or two teams and MaxUsers + 1 users, each with any of the prior rows.
InitAssign ==
  \E n \in {1, 2}, prior \in [1..(MaxUsers + 1) -> PriorUsers] :
    /\ users = [u \in 1..(MaxUsers + 1) |->
                  [name |-> u, role |-> prior[u].role, team_id |-> prior[u].team_id,
                   status |-> prior[u].status]]
    /\ rounds = RoundsStarted
    /\ teams = n
    /\ now = 0
    /\ team_rounds_state = EmptyFn
    /\ batches = <<>>
    /\ jokes = <<>>
    /\ joke_ratings = EmptyFn
    /\ published_jokes = EmptyFn
    /\ customer_round_budget = EmptyFn
    /\ purchases = {}
    /\ clock = 0
    /\ faults = 0
    /\ plan = NoPlan
    /\ claimed = <<>>
    /\ tally = NoTally
    /\ ret = Idle
    /\ pc = [p \in Procs |-> Idle]

\* Assign calls, one at a time and with no other request.
NextAssign ==
  \/ \E teamCount \in {0, 1, 2}, customerCount \in {0, 1} : AssignCall(1, 1, teamCount, customerCount)
  \/ AssignStep(1)

SpecAssign == InitAssign /\ [][NextAssign]_vars

\* The users that are no instructors and hold the role (in the team, for JM and QC).
Holding(role, team) ==
  {u \in DOMAIN users : UserExists(u) /\ users[u].role = role /\ users[u].team_id = team}

\* C23: right after a successful Assign every team holds at most one JM and at most
\* one QC, the teams are filled in team order (a team's JM before its QC, a team
\* before the next, the teams before the customers), at most customer_count users
\* are CUSTOMER, and every other user that is no instructor is WAITING without role
\* and team.
C23_AssignOutcome ==
  (ret.op = "Assign" /\ ret.outcome = "OK") =>
    /\ \A t \in 1..teams :
         /\ Cardinality(Holding("JM", t)) <= 1
         /\ Cardinality(Holding("QC", t)) <= 1
         /\ Holding("QC", t) # {} => Holding("JM", t) # {}
         /\ (t > 1 /\ Holding("JM", t) # {}) => Holding("QC", t - 1) # {}
    /\ \A u \in DOMAIN users :
         (UserExists(u) /\ users[u].role \in {"JM", "QC"}) => users[u].team_id \in 1..teams
    /\ Cardinality(Holding("CUSTOMER", 0)) <= ret.aux
    /\ (Holding("CUSTOMER", 0) # {} /\ teams > 0) => Holding("QC", teams) # {}
    /\ \A u \in DOMAIN users :
         (UserExists(u) /\ users[u].role \notin {"INSTRUCTOR", "JM", "QC", "CUSTOMER"}) =>
           /\ users[u].role = "NULL" /\ users[u].team_id = 0 /\ users[u].status = "WAITING"
           /\ Cardinality(Holding("CUSTOMER", 0)) = ret.aux

\* An Assign for two teams has given team 1 its JM and QC and team 2 a JM.
C23_Witness ==
  /\ ret.op = "Assign" /\ ret.outcome = "OK"
  /\ teams = 2
  /\ Holding("JM", 1) # {} /\ Holding("QC", 1) # {} /\ Holding("JM", 2) # {}
\* ------------------------------------------------------------------ rounds over time
\* Time passes between two statements.
Tick ==
  /\ now < MaxNow
  /\ now' = now + 1
  /\ UNCHANGED <<users, teams, rounds, team_rounds_state, dbBatch, dbMarket, faults, plan,
                 claimed, tally, ret, pc>>

\* The instructor configures, starts and ends rounds, one call at a time.
NextStart ==
  \/ \E r \in Rounds, b \in BudgetValues, s \in BatchSizes : InsertRoundConfigUpdate(1, r, b, s)
  \/ InsertRoundConfigInsert(1)
  \/ \E r \in Rounds, b \in BudgetValues, s \in BatchSizes : StartRound(1, r, b, s)
  \/ \E r \in Rounds : EndRound(1, r)
  \/ Tick

SpecStart == InitEmpty /\ [][NextStart]_vars

\* The step is a start of round r that returns OK.
Starts(r) ==
  /\ pc[1] = Idle /\ pc'[1] = Idle
  /\ ret'.op = "StartRound" /\ ret'.outcome = "OK" /\ ret'.round = r
  /\ now' = now

\* C24: over every sequence of start and end calls, started_at of a round is set by
\* its first start and no later step changes it; every start leaves the round ACTIVE
\* with ended_at NULL and the supplied configuration, and a round becomes ACTIVE only
\* in such a step, so status and configuration change together.
C24_StartStep ==
  [][\A r \in Rounds :
       /\ rounds[r].started_at # NullTime => rounds'[r].started_at = rounds[r].started_at
       /\ (Starts(r) /\ ret' # ret) =>
            /\ rounds'[r].status = "ACTIVE"
            /\ rounds'[r].ended_at = NullTime
            /\ rounds'[r].customer_budget = ret'.aux
            /\ rounds'[r].batch_size = ret'.n
            /\ rounds[r].started_at = NullTime => rounds'[r].started_at = now
       /\ (rounds[r].status # "ACTIVE" /\ rounds'[r].status = "ACTIVE") =>
            /\ Starts(r)
            /\ rounds'[r].customer_budget = ret'.aux
            /\ rounds'[r].batch_size = ret'.n
       /\ (rounds[r].started_at = NullTime /\ rounds'[r].started_at # NullTime) => Starts(r)
    ]_vars

\* A round has been started again at a later time than its first start: it is ACTIVE
\* with the started_at of the first start, no ended_at and the supplied budget.
C24_Witness ==
  /\ ret.op = "StartRound" /\ ret.outcome = "OK"
  /\ ret.value > rounds[ret.round].started_at
  /\ rounds[ret.round].started_at # NullTime
  /\ rounds[ret.round].status = "ACTIVE"
  /\ rounds[ret.round].ended_at = NullTime
  /\ rounds[ret.round].customer_budget = ret.aux
\* The step is a configure of round r that returns OK.
Configures(r) ==
  /\ pc'[1] = Idle
  /\ ret'.op = "InsertConfig" /\ ret'.outcome = "OK" /\ ret'.round = r
  /\ now' = now

\* C25: a configure of a round that exists changes its budget and batch size and
\* nothing else of it (status, started_at and ended_at stay), and changes nothing at
\* all when the round already has that configuration; a configure of a round that
\* does not exist creates it CONFIGURED with the configuration; no other round
\* changes.
C25_ConfigureStep ==
  [][\A r \in Rounds :
       Configures(r) =>
         /\ \A o \in Rounds \ {r} : rounds'[o] = rounds[o]
         /\ rounds'[r].customer_budget = ret'.aux
         /\ rounds'[r].batch_size = ret'.n
         /\ RoundExists(r) =>
              /\ rounds'[r].status = rounds[r].status
              /\ rounds'[r].started_at = rounds[r].started_at
              /\ rounds'[r].ended_at = rounds[r].ended_at
              /\ (rounds[r].customer_budget = ret'.aux /\ rounds[r].batch_size = ret'.n) =>
                   rounds' = rounds
         /\ ~RoundExists(r) =>
              /\ rounds'[r].status = "CONFIGURED"
              /\ rounds'[r].started_at = NullTime
              /\ rounds'[r].ended_at = NullTime
    ]_vars

\* A round that was started and ended has been configured at a later time: it is
\* still ENDED with its timestamps and holds the budget of the call.
C25_Witness ==
  /\ ret.op = "InsertConfig" /\ ret.outcome = "OK"
  /\ rounds[ret.round].status = "ENDED"
  /\ rounds[ret.round].started_at # NullTime
  /\ ret.value > rounds[ret.round].ended_at
  /\ rounds[ret.round].customer_budget = ret.aux
  /\ rounds[ret.round].batch_size = ret.n
\* ------------------------------------------------------------------ budget snapshot
\* CustomerService.Market: ensureCustomerOrInstructor, GetRoundByID, the status test.
MarketCall(p, u, r) ==
  /\ Free(p)
  /\ Proceed(p, [Call("Market", "checked", u, r) EXCEPT !.aux = rounds[r].customer_budget],
       IF users[u].role \notin {"CUSTOMER", "INSTRUCTOR"} THEN "Forbidden"
       ELSE IF ~RoundExists(r) THEN "NotFound"
       ELSE IF ~RoundActive(r) THEN "Conflict"
       ELSE "go")
  /\ UNCHANGED <<users, dbRounds, team_rounds_state, dbBatch, dbMarket, faults, plan, claimed>>

\* CustomerService.Budget: ensureCustomer, GetRoundByID (no status test).
BudgetCall(p, u, r) ==
  /\ Free(p)
  /\ Proceed(p, [Call("Budget", "checked", u, r) EXCEPT !.aux = rounds[r].customer_budget],
       IF users[u].role # "CUSTOMER" THEN "Forbidden"
       ELSE IF ~RoundExists(r) THEN "NotFound"
       ELSE "go")
  /\ UNCHANGED <<users, dbRounds, team_rounds_state, dbBatch, dbMarket, faults, plan, claimed>>

\* Market and Budget: EnsureCustomerBudget with the budget read from the round, then
\* the read (ListMarket, getCustomerBudget).
EnsureAndRead(p) ==
  /\ pc[p].op \in {"Market", "Budget"} /\ pc[p].step = "checked"
  /\ customer_round_budget' =
       EnsureCustomerBudget(customer_round_budget, pc[p].round, pc[p].user, pc[p].aux)
  /\ Finish(p, pc[p], "OK")
  /\ UNCHANGED <<users, dbRounds, team_rounds_state, dbBatch, purchases, faults, plan, claimed>>

\* Customer 5 (and JM 1, who is refused) uses the market of round 1 through slot 1
\* while the instructor reconfigures, ends and restarts the round through slot 2.
NextBudget ==
  \/ \E u \in {1, 5} : MarketCall(1, u, 1)
  \/ \E u \in {1, 5} : BudgetCall(1, u, 1)
  \/ EnsureAndRead(1)
  \/ \E j \in {1, 2} : BuyCall(1, 5, 1, j)
  \/ BuyBegin(1)
  \/ BuyWrite(1)
  \/ BuyIncrement(1)
  \/ BuyCommit(1)
  \/ \E j \in {1, 2} : ReturnCall(1, 5, 1, j)
  \/ ReturnWrite(1)
  \/ ReturnIncrement(1)
  \/ ReturnCommit(1)
  \/ \E b \in BudgetValues : InsertRoundConfigUpdate(2, 1, b, 2)
  \/ \E b \in BudgetValues : StartRound(2, 1, b, 2)
  \/ EndRound(2, 1)

SpecBudget == InitGame /\ [][NextBudget]_vars

\* The step belongs to a Buy or a Return on the budget row k that is past its
\* EnsureCustomerBudget.
WritesBudget(k) ==
  \E p \in Procs :
    /\ pc[p].op \in {"Buy", "Return"} /\ pc[p].step # "checked"
    /\ <<pc[p].round, pc[p].user>> = k

\* C26: a budget row that exists stays, its starting budget never changes, and its
\* remaining budget changes only in a step of a Buy or a Return on that row: the
\* EnsureCustomerBudget of Market, Budget, Buy and Return and every configure, start
\* and end of the round leave both as they are.
C26_BudgetSnapshot ==
  [][\A k \in DOMAIN customer_round_budget :
       /\ k \in DOMAIN customer_round_budget'
       /\ customer_round_budget'[k].starting_budget = customer_round_budget[k].starting_budget
       /\ customer_round_budget'[k].remaining_budget # customer_round_budget[k].remaining_budget
            => (WritesBudget(k) /\ rounds' = rounds)
    ]_vars

\* Customer 5 has read the budget after the round was given another customer budget
\* than the one of the row, and after a purchase: the row holds its first values.
C26_Witness ==
  /\ ret.op \in {"Budget", "Market"} /\ ret.outcome = "OK"
  /\ <<ret.round, ret.user>> \in DOMAIN customer_round_budget
  /\ customer_round_budget[<<ret.round, ret.user>>].starting_budget # ret.aux
  /\ customer_round_budget[<<ret.round, ret.user>>].starting_budget
       # rounds[ret.round].customer_budget
  /\ customer_round_budget[<<ret.round, ret.user>>].remaining_budget
       < customer_round_budget[<<ret.round, ret.user>>].starting_budget
\* ------------------------------------------------------------------ PatchUser alone
\* PatchUser calls, one at a time, on users with any earlier role, with every
\* status, role ("KEEP": none supplied) and team (0: none supplied; 2 may be no team).
NextPatch ==
  \/ \E u \in 1..(MaxUsers + 1), status \in {"WAITING", "ASSIGNED"},
        role \in {"KEEP", "JM", "QC", "CUSTOMER", "INSTRUCTOR"}, team \in {0, 1, 2} :
       PatchCall(1, 1, u, status, role, team)
  \/ PatchUserInRound(1)

SpecPatch == InitAssign /\ [][NextPatch]_vars

\* The role supplied by the request c, or else the one user u holds.
SuppliedOrRetained(c) ==
  LET rq == CHOOSE x \in c.value : TRUE IN
    IF rq.asked # "KEEP" THEN rq.asked ELSE users[c.user].role

\* The status of the request c.
StatusAsked(c) == (CHOOSE x \in c.value : TRUE).status

\* C27: a PatchUser with status WAITING stores the user WAITING with no role and no
\* team whatever the request supplied; with another status and a supplied or
\* retained role CUSTOMER or INSTRUCTOR it stores that role and no team; with
\* another status, role JM or QC and no team supplied or held it returns Validation
\* and changes nothing.
C27_PatchUserRules ==
  [][/\ (pc[1] = Idle /\ CallMade.op = "PatchUser" /\ UserExists(CallMade.user)) =>
          ((/\ StatusAsked(CallMade) # "WAITING"
            /\ SuppliedOrRetained(CallMade) \in {"JM", "QC"}
            /\ CallMade.n = 0
            /\ users[CallMade.user].team_id = 0)
             => (pc'[1] = Idle /\ ret'.outcome = "Validation" /\ UNCHANGED stored))
     /\ (pc[1].op = "PatchUser" /\ StatusAsked(pc[1]) = "WAITING") =>
          /\ ret'.outcome = "OK"
          /\ users'[pc[1].user].role = "NULL"
          /\ users'[pc[1].user].team_id = 0
          /\ users'[pc[1].user].status = "WAITING"
     /\ (/\ pc[1].op = "PatchUser"
         /\ StatusAsked(pc[1]) # "WAITING"
         /\ SuppliedOrRetained(pc[1]) \in {"CUSTOMER", "INSTRUCTOR"}) =>
          /\ ret'.outcome = "OK"
          /\ users'[pc[1].user].role = SuppliedOrRetained(pc[1])
          /\ users'[pc[1].user].team_id = 0
    ]_vars

\* A PatchUser that supplied status ASSIGNED, role CUSTOMER and a team has stored
\* the user as CUSTOMER without team.
C27_Witness ==
  /\ ret.op = "PatchUser" /\ ret.outcome = "OK"
  /\ StatusAsked(ret) = "ASSIGNED"
  /\ (CHOOSE x \in ret.value : TRUE).asked = "CUSTOMER"
  /\ ret.n # 0
  /\ users[ret.user].role = "CUSTOMER" /\ users[ret.user].team_id = 0
\* ------------------------------------------------------------------ callers of any role
\* Every use case called by users of the right and of the wrong role, one request
\* at a time, on round 1: Submit for team 1 by JM 1, JM 2 and QC 3 with no joke or
\* two, Next by JM 1 and QC 3, Rate by QC 3 and customer 5 with no rating or two,
\* Buy by QC 3 and customer 5, Return by JM 1 and customer 5.
NextRoles ==
  \/ \E u \in {1, 2, 3}, n \in {0, 2} : SubmitCall(1, u, 1, 1, n)
  \/ SubmitInsert(1)
  \/ SubmitIncrement(1)
  \/ SubmitCommit(1)
  \/ \E u \in {1, 3} : NextCall(1, u, 1)
  \/ NextSelect(1)
  \/ NextCommit(1)
  \/ \E u \in {3, 5}, b \in BatchIds, none \in BOOLEAN :
       RateCall(1, u, b, IF none THEN <<>> ELSE RatingPairs(b, <<5, 4>>))
  \/ RateLock(1)
  \/ RateIncrement(1)
  \/ RateCommit(1)
  \/ \E u \in {3, 5} : BuyCall(1, u, 1, 1)
  \/ BuyBegin(1)
  \/ BuyWrite(1)
  \/ BuyIncrement(1)
  \/ BuyCommit(1)
  \/ \E u \in {1, 5} : ReturnCall(1, u, 1, 1)
  \/ ReturnWrite(1)
  \/ ReturnIncrement(1)
  \/ ReturnCommit(1)

SpecRoles == InitGame /\ [][NextRoles]_vars

\* The caller of call c does not hold the role (and, for Submit, the team) that the
\* use case asks for.
WrongRole(c) ==
  \/ c.op = "Submit" /\ (users[c.user].role # "JM" \/ users[c.user].team_id # c.team)
  \/ c.op \in {"Next", "Rate"} /\ users[c.user].role # "QC"
  \/ c.op \in {"Buy", "Return"} /\ users[c.user].role # "CUSTOMER"

\* C28: a Submit by a user who is no JM of the named team, a Next or Rate by a user
\* who is no QC and a Buy or Return by a user who is no CUSTOMER returns Forbidden
\* in a step that changes no stored state.
C28_WrongRoleForbidden ==
  [][(pc[1] = Idle /\ CallMade.op \in GuardedOps /\ WrongRole(CallMade)) =>
       (pc'[1] = Idle /\ ret'.outcome = "Forbidden" /\ UNCHANGED stored)]_vars

\* QC 3 has submitted an empty list of jokes for team 1 and was told Validation.
C28_Witness ==
  /\ ret.op = "Submit" /\ ret.outcome = "Validation"
  /\ ret.n = 0
  /\ users[ret.user].role # "JM"
\* ------------------------------------------------------------------ claims: QC and teams
\* C29: the team of the QC plays no part in what Next serves: the batch returned is
\* no newer than any SUBMITTED batch of the round, of the QC's team or of any other
\* team, that is unlocked or locked by the QC, and Next finds no batch only when no
\* team has such a batch.
C29_AnyTeamServed ==
  \A t \in Teams :
    LET ofTeam == {b \in Available(ret.round, ret.user) : batches[b].team_id = t} IN
      /\ (ret.op = "Next" /\ ret.outcome = "OK") =>
           \A o \in ofTeam : batches[ret.batch].submitted_at <= batches[o].submitted_at
      /\ (ret.op = "Next" /\ ret.outcome = "NotFound") => ofTeam = {}

\* A QC has been given the batch of the other team, the oldest, while a newer batch
\* of its own team is SUBMITTED and unlocked.
C29_Witness ==
  /\ ret.op = "Next" /\ ret.outcome = "OK"
  /\ batches[ret.batch].team_id # users[ret.user].team_id
  /\ \E o \in BatchIds :
       /\ batches[o].status = "SUBMITTED" /\ batches[o].locked_by_qc = 0
       /\ batches[o].round_id = ret.round
       /\ batches[o].team_id = users[ret.user].team_id
       /\ batches[o].submitted_at > batches[ret.batch].submitted_at
\* ------------------------------------------------------------------ claims: Next never waits
\* A Next that has started goes on whenever it can; a Rate may stay in its
\* transaction for as long as it likes.
SpecQCLive ==
  /\ InitQC
  /\ [][NextQC]_vars
  /\ \A p \in Procs : WF_vars(NextSelect(p)) /\ WF_vars(NextCommit(p))

C31_UniqueDisplayName ==
  \A u \in LobbyIds, v \in LobbyIds :
    (u # v /\ UserExists(u) /\ UserExists(v)) => users[u].name # users[v].name

\* A Join has created a user with the display name that an instructor holds.
C31_Witness ==
  /\ ret.op = "Join" /\ ret.outcome = "OK"
  /\ UserExists(ret.user) /\ users[ret.user].role # "INSTRUCTOR"
  /\ \E v \in LobbyIds \ {ret.user} :
       /\ UserExists(v)
       /\ users[v].role = "INSTRUCTOR"
       /\ users[v].name = users[ret.user].name
\* ------------------------------------------------------------------ ending a round under way
\* JM 1, QC 3 and customer 5 work on round 1 through slot 1, one request at a time,
\* while the instructor ends and restarts the round through slot 2, between any two
\* statements of a request.
NextEndRace ==
  \/ SubmitCall(1, 1, 1, 1, 2)
  \/ SubmitInsert(1)
  \/ SubmitIncrement(1)
  \/ SubmitCommit(1)
  \/ NextCall(1, 3, 1)
  \/ NextSelect(1)
  \/ NextCommit(1)
  \/ \E b \in BatchIds : RateCall(1, 3, b, RatingPairs(b, <<5, 4>>))
  \/ RateLock(1)
  \/ RateIncrement(1)
  \/ RateCommit(1)
  \/ BuyCall(1, 5, 1, 1)
  \/ BuyBegin(1)
  \/ BuyWrite(1)
  \/ BuyIncrement(1)
  \/ BuyCommit(1)
  \/ ReturnCall(1, 5, 1, 1)
  \/ ReturnWrite(1)
  \/ ReturnIncrement(1)
  \/ ReturnCommit(1)
  \/ EndRound(2, 1)
  \/ StartRound(2, 1, MaxBudget, 2)

SpecEndRace == InitGame /\ [][NextEndRace]_vars

\* C32: whenever a batch is created or becomes RATED, or a purchase is inserted or
\* deleted, the round it belongs to is ACTIVE in the committed state at the moment
\* the write commits, whatever EndRound did while the request was in progress.
C32_WritesOnlyWhileActive ==
  [][/\ Len(batches') > Len(batches) =>
          rounds[batches'[Len(batches')].round_id].status = "ACTIVE"
     /\ \A b \in BatchIds :
          (batches[b].status # "RATED" /\ batches'[b].status = "RATED") =>
            rounds[batches[b].round_id].status = "ACTIVE"
     /\ \A k \in (purchases' \ purchases) \cup (purchases \ purchases') :
          rounds[k[1]].status = "ACTIVE"
    ]_vars

\* A Buy has committed its purchase in a round that was ended while it was in
\* progress.
C32_Witness ==
  /\ ret.op = "Buy" /\ ret.outcome = "OK"
  /\ <<ret.round, ret.user, ret.joke>> \in purchases
  /\ rounds[ret.round].status = "ENDED"
\* ------------------------------------------------------------------ claims: what Buy and Return touch
\* C33: a step of a Buy or a Return leaves users, rounds, batches, jokes, ratings
\* and published jokes alone and, in team_rounds_state, changes at most points_earned
\* of the team that published the joke: batches_created, batches_rated and
\* accepted_jokes stay, so with no request in progress batches_rated of every
\* (round, team) is the number of its RATED batches.
C33_BuyReturnFrame ==
  /\ [](pc[1] = Idle =>
          \A k \in DOMAIN team_rounds_state :
            team_rounds_state[k].batches_rated =
              Cardinality({b \in BatchIds : /\ batches[b].round_id = k[1]
                                            /\ batches[b].team_id = k[2]
                                            /\ batches[b].status = "RATED"}))
  /\ [][\A p \in Procs :
          pc[p].op \in {"Buy", "Return"} =>
            /\ UNCHANGED <<users, rounds, batches, jokes, joke_ratings, published_jokes>>
            /\ DOMAIN team_rounds_state' = DOMAIN team_rounds_state
            /\ \A k \in DOMAIN team_rounds_state :
                 /\ team_rounds_state'[k].batches_created = team_rounds_state[k].batches_created
                 /\ team_rounds_state'[k].batches_rated = team_rounds_state[k].batches_rated
                 /\ team_rounds_state'[k].accepted_jokes = team_rounds_state[k].accepted_jokes
                 /\ team_rounds_state'[k].points_earned # team_rounds_state[k].points_earned =>
                      /\ pc[p].joke \in DOMAIN published_jokes
                      /\ k = <<pc[p].round, published_jokes[pc[p].joke].team_id>>
       ]_vars

\* A Buy has returned OK and the team of the joke counts more rated batches than
\* it has RATED batches.
C33_Witness ==
  /\ ret.op = "Buy" /\ ret.outcome = "OK"
  /\ <<ret.round, ret.team>> \in DOMAIN team_rounds_state
  /\ team_rounds_state[<<ret.round, ret.team>>].batches_rated >
       Cardinality({b \in BatchIds : /\ batches[b].round_id = ret.round
                                     /\ batches[b].team_id = ret.team
                                     /\ batches[b].status = "RATED"})
\* ------------------------------------------------------------------ claims: passes and published jokes
\* C34: with no request in progress, accepted_jokes of every (round, team) is the
\* number of published jokes of that round and team, and passes_count of every RATED
\* batch is the number of its own jokes that are published, whatever jokes the
\* ratings of the accepted Rate requests named.
C34_PassesArePublished ==
  pc[1] = Idle =>
    /\ \A k \in DOMAIN team_rounds_state :
         team_rounds_state[k].accepted_jokes =
           Cardinality({j \in DOMAIN published_jokes :
                          /\ published_jokes[j].round_id = k[1]
                          /\ published_jokes[j].team_id = k[2]})
    /\ \A b \in BatchIds :
         batches[b].status = "RATED" =>
           batches[b].passes_count = Cardinality(JokesOf(b) \cap DOMAIN published_jokes)

\* A Rate whose ratings named jokes of another batch has returned OK, and the batch
\* counts more passes than it has published jokes.
C34_Witness ==
  /\ ret.op = "Rate" /\ ret.outcome = "OK"
  /\ \E i \in DOMAIN ret.ratings : jokes[ret.ratings[i].joke_id].batch_id # ret.batch
  /\ batches[ret.batch].passes_count >
       Cardinality(JokesOf(ret.batch) \cap DOMAIN published_jokes)
\* ------------------------------------------------------------------ claims: what is published
\* C35: every published joke belongs to a RATED batch, carries the round and team of
\* that batch and has a stored rating of 5; no joke with a stored rating below 5 is
\* published.
C35_PublishedRatedFive ==
  \A j \in DOMAIN published_jokes :
    /\ batches[jokes[j].batch_id].status = "RATED"
    /\ published_jokes[j].round_id = batches[jokes[j].batch_id].round_id
    /\ published_jokes[j].team_id = batches[jokes[j].batch_id].team_id
    /\ j \in DOMAIN joke_ratings
    /\ joke_ratings[j].rating = 5

\* A published joke has a stored rating below 5 after a Rate of another batch.
C35_Witness ==
  /\ ret.op = "Rate" /\ ret.outcome = "OK"
  /\ \E j \in DOMAIN published_jokes :
       /\ jokes[j].batch_id # ret.batch
       /\ joke_ratings[j].rating < 5

\* ------------------------------------------------------------------ claims: rating needs the lock
\* C36: a batch becomes RATED only in the commit of a Rate whose QC holds the lock
\* of the batch at that moment, a lock that a Next gave to that QC; a Rate on a
\* SUBMITTED batch that no QC has locked does not succeed.
C36_RatedByLockHolder ==
  [][\A b \in BatchIds :
       (batches[b].status = "SUBMITTED" /\ batches'[b].status = "RATED") =>
         \E p \in Procs :
           /\ pc[p].op = "Rate" /\ pc[p].batch = b
           /\ batches[b].locked_by_qc = pc[p].user
           /\ pc[p].user \in claimed[b]]_vars

\* A Rate has passed the lock test of RateBatch on a batch that no Next has ever
\* handed out and that no QC has locked.
C36_Witness ==
  \E p \in Procs :
    /\ pc[p].op = "Rate" /\ pc[p].step = "incremented"
    /\ batches[pc[p].batch].status = "SUBMITTED"
    /\ batches[pc[p].batch].locked_by_qc = 0
    /\ claimed[pc[p].batch] = {}

\* ------------------------------------------------------------------ claims: one lock per QC
\* DELETE FROM users has removed the row.
RowGone == [role |-> "GONE", team_id |-> 0]

\* joke_ratings.qc_user_id REFERENCES users ON DELETE RESTRICT
HasRated(u) == \E j \in DOMAIN joke_ratings : joke_ratings[j].qc_user_id = u

\* The DELETE waits for the open transactions that hold a row it must touch: a
\* batch row locked by u that a Next or a Rate has selected FOR UPDATE, the users row
\* that the rating inserts of u's own Rate reference.
DeleteWaits(p, u) ==
  \/ \E b \in BatchIds : batches[b].locked_by_qc = u /\ BatchRowLocked(b, p)
  \/ \E q \in Procs \ {p} :
       pc[q].op = "Rate" /\ pc[q].user = u /\ pc[q].step \in {"locked", "incremented"}

\* batches.locked_by_qc REFERENCES users ON DELETE SET NULL
ReleaseLocks(bs, u) ==
  [b \in DOMAIN bs |-> IF bs[b].locked_by_qc = u THEN [bs[b] EXCEPT !.locked_by_qc = 0] ELSE bs[b]]

\* InstructorService.DeleteUser -> DeleteUser on a QC: SELECT role, DELETE FROM
\* users with the actions of the foreign keys, tx.Commit.
DeleteQC(p, u) ==
  /\ Free(p)
  /\ ~DeleteWaits(p, u)
  /\ LET c == Call("DeleteUser", "delete", u, 0) IN
       IF users[u] = RowGone
         THEN Finish(p, c, "NotFound") /\ UNCHANGED <<users, batches>>
       ELSE IF HasRated(u)
         THEN Finish(p, c, "Internal") /\ UNCHANGED <<users, batches>>
       ELSE /\ users' = [users EXCEPT ![u] = RowGone]
            /\ batches' = ReleaseLocks(batches, u)
            /\ Finish(p, c, "OK")
  /\ UNCHANGED <<dbRounds, team_rounds_state, jokes, joke_ratings, published_jokes, clock,
                 dbMarket, faults, plan, claimed>>

\* QCService.Next, QCService.Rate: GetUserByID finds no row.
GoneCall(p, op, u) ==
  /\ Free(p)
  /\ users[u] = RowGone
  /\ Finish(p, Call(op, "checked", u, 1), "NotFound")
  /\ UNCHANGED <<users, dbRounds, team_rounds_state, dbBatch, dbMarket, faults, plan, claimed>>

\* The caller's row was deleted after the use case read it: the UPDATE of
\* locked_by_qc, the INSERT of a rating violates its foreign key and the deferred
\* tx.Rollback ends the transaction.
GoneAbort(p) ==
  /\ \/ pc[p].op = "Next" /\ pc[p].step = "selected"
     \/ pc[p].op = "Rate" /\ pc[p].step = "locked"
  /\ users[pc[p].user] = RowGone
  /\ Finish(p, pc[p], "Internal")
  /\ UNCHANGED <<users, dbRounds, team_rounds_state, dbBatch, dbMarket, faults, plan, claimed>>

\* Round 1 is ACTIVE and team 1 has submitted one batch.
InitQueue ==
  /\ users = InitUsers
  /\ rounds = RoundsStarted
  /\ teams = 2
  /\ now = 0
  /\ batches = SubmittedBatches(<<1>>)
  /\ jokes = [j \in 1..2 |-> [batch_id |-> 1]]
  /\ team_rounds_state = [k \in {<<1, 1>>} |-> [NoStats EXCEPT !.batches_created = 1]]
  /\ joke_ratings = EmptyFn
  /\ published_jokes = EmptyFn
  /\ customer_round_budget = EmptyFn
  /\ purchases = {}
  /\ clock = 1
  /\ faults = 0
  /\ plan = NoPlan
  /\ claimed = <<{}>>
  /\ tally = NoTally
  /\ ret = Idle
  /\ pc = [p \in Procs |-> Idle]

\* Submit, Next, Rate and DeleteUser in any interleaving.
NextQueue ==
  \/ SubmitCall(1, 2, 1, 2, 2)
  \/ SubmitInsert(1)
  \/ SubmitIncrement(1)
  \/ SubmitCommit(1)
  \/ \E p \in Procs :
       \/ \E u \in QCs : users[u] # RowGone /\ NextCall(p, u, 1)
       \/ NextSelect(p)
       \/ pc[p].op = "Next" /\ users[pc[p].user] # RowGone /\ NextCommit(p)
       \/ \E u \in QCs, b \in BatchIds :
            users[u] # RowGone /\ RateCall(p, u, b, RatingPairs(b, <<5, 4>>))
       \/ RateLock(p)
       \/ pc[p].op = "Rate" /\ users[pc[p].user] # RowGone /\ RateIncrement(p)
       \/ RateCommit(p)
       \/ \E u \in QCs : DeleteQC(p, u)
       \/ \E u \in QCs, op \in {"Next", "Rate"} : GoneCall(p, op, u)
       \/ GoneAbort(p)

SpecQueue == InitQueue /\ [][NextQueue]_vars

HeldBy(q, r) ==
  {b \in BatchIds :
     batches[b].round_id = r /\ batches[b].status = "SUBMITTED" /\ batches[b].locked_by_qc = q}

\* C37: in every committed state each QC is the lock holder of at most one
\* SUBMITTED batch of a round, under any interleaving of Submit, Next, Rate and
\* DeleteUser, and a Next of a QC who holds a batch returns that batch.
C37_OneLockPerQC ==
  /\ [](\A q \in QCs, r \in Rounds : Cardinality(HeldBy(q, r)) <= 1)
  /\ [][\A q \in QCs :
          (ret'.op = "Next" /\ ret'.outcome = "OK" /\ ret'.user = q /\ HeldBy(q, ret'.round) # {})
            => ret'.batch \in HeldBy(q, ret'.round)]_vars

\* A Next has just handed a QC a second batch while that QC still holds the first.
C37_Witness ==
  /\ ret.op = "Next" /\ ret.outcome = "OK"
  /\ Cardinality(HeldBy(ret.user, ret.round)) = 2

\* ------------------------------------------------------------------ claims: purchases and rounds
PointsCredited(r, t) ==
  IF <<r, t>> \in DOMAIN team_rounds_state THEN team_rounds_state[<<r, t>>].points_earned ELSE 0

\* C38: every purchase is for a joke published in the round of the purchase and
\* its point is credited to the publishing team's state of that round; a Buy of a
\* joke that is not published, or was published in another round, does not succeed.
C38_PurchaseInPublishingRound ==
  /\ \A k \in purchases :
       k[3] \in DOMAIN published_jokes /\ published_jokes[k[3]].round_id = k[1]
  /\ (\A p \in Procs : pc[p] = Idle) =>
       \A r \in Rounds, t \in Teams : PointsCredited(r, t) = Cardinality(HeldOn(purchases, r, t))
  /\ (ret.op = "Buy" /\ ret.outcome = "OK") =>
       (ret.joke \in DOMAIN published_jokes /\ published_jokes[ret.joke].round_id = ret.round)

\* A Buy in one round has succeeded on a joke published in another round.
C38_Witness ==
  /\ ret.op = "Buy" /\ ret.outcome = "OK"
  /\ <<ret.round, ret.user, ret.joke>> \in purchases
  /\ published_jokes[ret.joke].round_id # ret.round

\* ------------------------------------------------------------------ claims: every batch is rated
\* Round 1 stays ACTIVE: JM 2 submits, the QCs call Next and Rate.
NextServe ==
  \/ SubmitCall(1, 2, 1, 2, 2)
  \/ SubmitInsert(1)
  \/ SubmitIncrement(1)
  \/ SubmitCommit(1)
  \/ \E p \in Procs :
       \/ \E u \in QCs : NextCall(p, u, 1)
       \/ NextSelect(p)
       \/ NextCommit(p)
       \/ \E u \in QCs, b \in BatchIds : RateCall(p, u, b, RatingPairs(b, <<5, 4>>))
       \/ RateLock(p)
       \/ RateIncrement(p)
       \/ RateCommit(p)

\* QC u rates batch b, which a Next has handed to u.
RateHeld(u, b) ==
  /\ b \in BatchIds
  /\ batches[b].status = "SUBMITTED"
  /\ batches[b].locked_by_qc = u
  /\ \E p \in Procs : RateCall(p, u, b, RatingPairs(b, <<5, 4>>))

\* A request that has started runs to its end (a statement that waits for a row
\* lock is served when the lock is released); every QC keeps calling Next and
\* rates the batches it holds.
SpecServe ==
  /\ InitQueue
  /\ [][NextServe]_vars
  /\ WF_vars(SubmitInsert(1)) /\ WF_vars(SubmitIncrement(1)) /\ WF_vars(SubmitCommit(1))
  /\ \A p \in Procs :
       /\ WF_vars(NextSelect(p)) /\ WF_vars(NextCommit(p))
       /\ SF_vars(RateLock(p)) /\ WF_vars(RateIncrement(p)) /\ WF_vars(RateCommit(p))
  /\ \A u \in QCs : SF_vars(\E p \in Procs : NextCall(p, u, 1))
  /\ \A u \in QCs, b \in 1..MaxBatches : SF_vars(RateHeld(u, b))

\* C39: while the round stays ACTIVE, the QCs keep calling Next and every QC rates
\* the batches it is handed, every SUBMITTED batch of the round is eventually RATED.
C39_EveryBatchRated ==
  \A b \in 1..MaxBatches :
    (b \in BatchIds /\ batches[b].status = "SUBMITTED")
      ~> (b \in BatchIds /\ batches[b].status = "RATED")

\* The older batch is still SUBMITTED and locked while a newer batch has been
\* submitted and a Rate has made a batch RATED.
C39_Witness ==
  /\ ret.op = "Rate" /\ ret.outcome = "OK"
  /\ \E b \in BatchIds :
       /\ batches[b].status = "SUBMITTED" /\ batches[b].locked_by_qc # 0
       /\ batches[ret.batch].submitted_at > batches[b].submitted_at
====
